---- MODULE Spec2Model ----
(***************************************************************************)
(* A model of pdf-inspector: the reading-order resolver (extractor.rs),    *)
(* the Markdown emitter (markdown.rs), the content-stream interpreter      *)
(* (extractor.rs) and the ToUnicode CMap decoder (tounicode.rs).           *)
(*                                                                         *)
(* Lengths (x, y, width, font size) are integers in tenths of a point, so  *)
(* the source's 3.0pt is 30 and its 0.5pt is 5.  Texts are sequences of    *)
(* one-character strings ("bullet" stands for the character U+2022).       *)
(***************************************************************************)
EXTENDS Integers, Sequences, FiniteSets, TLC

VARIABLES
    items,      \* layout: the TextItems handed to group_into_lines
    lines,      \* layout: the TextLines group_into_lines returned
    stage,      \* layout: "idle" | "input" | "grouped"
    operand,    \* decoding: the operand object being decoded
    font_env,   \* decoding: the current font and the page's font tables
    cid_cmap,   \* decoding: the ToUnicodeCMap decode_cids is called on
    overflow_checks, \* decoding: TRUE when the build traps integer overflow
    decoded,    \* decoding: what the last decoding call returned
    dec_stage,  \* decoding: "idle" | "input" | "cids" | "operand"
    doc,        \* interpreter: the document, its pages and Form XObjects
    pc,         \* interpreter: "idle" | "next_page" | "page_ops" | "done"
    page_pos,   \* interpreter: the number of the page being interpreted
    page_state, \* interpreter: the locals of extract_page_text_items
    frames,     \* interpreter: the active calls of extract_form_xobject_text
    all_items,  \* interpreter: the items of the pages interpreted so far
    result,     \* interpreter: what extract_positioned_text_from_doc returned
    em_lines,   \* emitter: the TextLines given to to_markdown_from_lines
    em_options, \* emitter: the MarkdownOptions given with them
    runs,       \* emitter: per call so far, the merged lines and the Markdown
    call,       \* a call of one function: its name, its arguments, its position
    ret         \* what the call returned, once it has

layoutVars == <<items, lines, stage>>
decodeVars == <<operand, font_env, cid_cmap, overflow_checks, decoded, dec_stage>>
interpVars == <<doc, pc, page_pos, page_state, frames, all_items, result>>
emitVars == <<em_lines, em_options, runs>>
callVars == <<call, ret>>
vars == <<layoutVars, decodeVars, interpVars, emitVars, callVars>>

----------------------------------------------------------------------------
(* Generic helpers *)

Abs(n) == IF n < 0 THEN -n ELSE n
Max(a, b) == IF a >= b THEN a ELSE b
Min(a, b) == IF a <= b THEN a ELSE b

\* Option<T>, and the outcome of a call that panics.
None == [some |-> FALSE, panic |-> FALSE, val |-> <<>>]
Some(v) == [some |-> TRUE, panic |-> FALSE, val |-> v]
Panicked == [some |-> FALSE, panic |-> TRUE, val |-> <<>>]

RECURSIVE SeqsUpTo(_, _)
SeqsUpTo(S, n) ==
    IF n = 0 THEN {<<>>}
    ELSE LET shorter == SeqsUpTo(S, n - 1)
         IN  shorter \cup {Append(s, e) : s \in {t \in shorter : Len(t) = n - 1}, e \in S}

RECURSIVE Concat(_)
Concat(ss) == IF ss = <<>> THEN <<>> ELSE Head(ss) \o Concat(Tail(ss))

\* The comparators the source hands to sort_by.
\*   "x":       a.x.partial_cmp(&b.x)
\*   "ydesc_x": b.y.partial_cmp(&a.y).then(a.x.partial_cmp(&b.x))
LessBy(cmp, a, b) ==
    CASE cmp = "x" -> a.x < b.x
      [] cmp = "ydesc_x" -> a.y > b.y \/ (a.y = b.y /\ a.x < b.x)
      [] cmp = "ydesc" -> a.y > b.y

\* Insert e into the sorted sequence s after every element that is not
\* greater than it: the insertion step of a stable sort (sort_by is stable).
RECURSIVE InsertStable(_, _, _)
InsertStable(s, e, cmp) ==
    IF s = <<>> THEN <<e>>
    ELSE IF LessBy(cmp, e, Head(s)) THEN <<e>> \o s
    ELSE <<Head(s)>> \o InsertStable(Tail(s), e, cmp)

RECURSIVE StableSort(_, _)
StableSort(s, cmp) ==
    IF s = <<>> THEN <<>>
    ELSE InsertStable(StableSort(SubSeq(s, 1, Len(s) - 1), cmp), s[Len(s)], cmp)

----------------------------------------------------------------------------
(* TextItem and TextLine: extractor.rs *)

TextItem(text, x, y, width, font_size, page) ==
    [text |-> text, x |-> x, y |-> y, width |-> width,
     font_size |-> font_size, page |-> page]

TextLine(its, y, page) == [items |-> its, y |-> y, page |-> page]

Y_TOLERANCE == 30
Y_CHANGE == 5
SAME_X == 50
LEFT_OF_LAST == 100
JUMP_THRESHOLD == 500
MIN_ITEMS_TO_JUDGE == 5
MIN_JUMPS == 3

\* Mutant of ShouldUseYSorting: columns of fewer than 5 items are judged too.
ShouldUseYSorting_any_length(its) ==
    LET ups   == Cardinality({i \in 1..(Len(its) - 1) :
                     its[i + 1].y - its[i].y > JUMP_THRESHOLD})
        downs == Cardinality({i \in 1..(Len(its) - 1) :
                     its[i + 1].y - its[i].y < -JUMP_THRESHOLD})
    IN  IF ups + downs < MIN_JUMPS THEN FALSE
        ELSE ups * 10 > 4 * (ups + downs)

\* should_use_y_sorting: chaos_ratio > 0.4 is up / total > 4 / 10.
ShouldUseYSorting(its) ==
    IF Len(its) < MIN_ITEMS_TO_JUDGE THEN FALSE
    ELSE LET ups   == Cardinality({i \in 1..(Len(its) - 1) :
                          its[i + 1].y - its[i].y > JUMP_THRESHOLD})
             downs == Cardinality({i \in 1..(Len(its) - 1) :
                          its[i + 1].y - its[i].y < -JUMP_THRESHOLD})
         IN  IF ups + downs < MIN_JUMPS THEN FALSE
             ELSE ups * 10 > 4 * (ups + downs)

\* Mutant: the guard "starts more than 10pt left of the line's last item" is lost.
ShouldMerge_no_left_guard(last_line, item) ==
    IF last_line.page # item.page THEN FALSE
    ELSE LET y_diff == Abs(last_line.y - item.y)
         IN  IF y_diff >= Y_TOLERANCE THEN FALSE
             ELSE IF y_diff > Y_CHANGE
                  THEN ~(Abs(item.x - last_line.items[1].x) < SAME_X)
                  ELSE TRUE

\* The closure deciding whether item joins the most recent line.
ShouldMerge(last_line, item) ==
    IF last_line.page # item.page THEN FALSE
    ELSE LET y_diff == Abs(last_line.y - item.y)
             first_item == last_line.items[1]
             last_item == last_line.items[Len(last_line.items)]
         IN  IF y_diff >= Y_TOLERANCE THEN FALSE
             ELSE IF y_diff > Y_CHANGE
                  THEN IF Abs(item.x - first_item.x) < SAME_X THEN FALSE
                       ELSE IF item.x < last_item.x - LEFT_OF_LAST THEN FALSE
                       ELSE TRUE
                  ELSE TRUE

RECURSIVE GroupLoop(_, _)
GroupLoop(rest, acc) ==
    IF rest = <<>> THEN acc
    ELSE LET item == Head(rest)
         IN  IF acc # <<>> /\ ShouldMerge(acc[Len(acc)], item)
             THEN GroupLoop(Tail(rest),
                      [acc EXCEPT ![Len(acc)].items = Append(@, item)])
             ELSE GroupLoop(Tail(rest),
                      Append(acc, TextLine(<<item>>, item.y, item.page)))

\* The order in which group_single_column walks its items.
WalkOrder(its) ==
    IF ShouldUseYSorting(its) THEN StableSort(its, "ydesc_x") ELSE its

\* Mutant: the lines keep the order in which the items were pushed.
SortLineItems_unsorted(line) == line

SortLineItems(line) == [line EXCEPT !.items = StableSort(@, "x")]

group_single_column(its) ==
    LET grouped == GroupLoop(WalkOrder(its), <<>>)
    IN  [k \in 1..Len(grouped) |-> SortLineItems(grouped[k])]

----------------------------------------------------------------------------
(* Characters and strings *)

IsWhitespace(c) == c \in {" ", "\n", "\t"}
IsAsciiDigit(c) == c \in {"0", "1", "2", "3", "4", "5", "6", "7", "8", "9"}

RECURSIVE TrimStart(_)
TrimStart(t) ==
    IF t # <<>> /\ IsWhitespace(Head(t)) THEN TrimStart(Tail(t)) ELSE t

RECURSIVE TrimEnd(_)
TrimEnd(t) ==
    IF t # <<>> /\ IsWhitespace(t[Len(t)]) THEN TrimEnd(SubSeq(t, 1, Len(t) - 1))
    ELSE t

Trim(t) == TrimEnd(TrimStart(t))

\* str::len() counts UTF-8 bytes, chars().count() counts characters.
\* "bullet" stands for U+2022, three bytes in UTF-8.
ByteLenOfChar(c) ==
    IF c \in {"bullet", "white-circle", "black-circle", "white-bullet"} THEN 3
    ELSE IF c = "a-acute" THEN 2
    ELSE 1

RECURSIVE ByteLen(_)
ByteLen(t) == IF t = <<>> THEN 0 ELSE ByteLenOfChar(Head(t)) + ByteLen(Tail(t))

----------------------------------------------------------------------------
(* Column detection and group_into_lines: extractor.rs *)

BIN_WIDTH == 20
MIN_GUTTER_BINS == 4
MIN_ITEMS_PER_COLUMN == 10
MIN_PAGE_WIDTH == 2000
MIN_PAGE_ITEMS == 20
MAX_GUTTERS == 3
SPAN_OVERLAP == 200
PAGE_NUMBER_TOP == 8000
PAGE_NUMBER_BOTTOM == 1000
PAGE_NUMBER_DIGITS == 4

\* item.text.chars().count() as f32 * item.font_size * 0.5 when width is 0
effective_width(item) ==
    IF item.width > 0 THEN item.width
    ELSE (Len(item.text) * item.font_size) \div 2

ColumnRegion(x_min, x_max) == [x_min |-> x_min, x_max |-> x_max]

SetMin(S) == CHOOSE m \in S : \A n \in S : m <= n
SetMax(S) == CHOOSE m \in S : \A n \in S : m >= n

\* The members of the set of naturals S, ascending.
RECURSIVE Ascending(_)
Ascending(S) ==
    IF S = {} THEN <<>> ELSE <<SetMin(S)>> \o Ascending(S \ {SetMin(S)})

\* A valley is a pair <<start_bin, end_bin>>; sort_by on the width, widest first.
RECURSIVE InsertWidest(_, _)
InsertWidest(s, v) ==
    IF s = <<>> THEN <<v>>
    ELSE IF v[2] - v[1] > Head(s)[2] - Head(s)[1] THEN <<v>> \o s
    ELSE <<Head(s)>> \o InsertWidest(Tail(s), v)

RECURSIVE SortWidest(_)
SortWidest(s) ==
    IF s = <<>> THEN <<>>
    ELSE InsertWidest(SortWidest(SubSeq(s, 1, Len(s) - 1)), s[Len(s)])

RECURSIVE BuildColumns(_, _, _, _)
BuildColumns(valleys, col_start, x_min, x_max) ==
    IF valleys = <<>> THEN <<ColumnRegion(col_start, x_max)>>
    ELSE LET gutter_center == x_min + (Head(valleys)[1] + Head(valleys)[2]) * (BIN_WIDTH \div 2)
         IN  <<ColumnRegion(col_start, gutter_center)>>
                 \o BuildColumns(Tail(valleys), gutter_center, x_min, x_max)

\* histogram[b] is the number of items covering bin b (bins from 0).
Histogram(page_items, x_min, num_bins) ==
    LET n == Len(page_items)
        left == [i \in 1..n |-> Min((page_items[i].x - x_min) \div BIN_WIDTH, num_bins)]
        right == [i \in 1..n |->
                     Min((page_items[i].x + effective_width(page_items[i]) - x_min
                          + BIN_WIDTH - 1) \div BIN_WIDTH, num_bins)]
    IN  [b \in 0..(num_bins - 1) |->
            Cardinality({i \in 1..n : left[i] <= b /\ b < right[i]})]

\* The maximal runs <<start_bin, end_bin>> of bins at or under the noise
\* threshold, left to right.
Valleys(histogram, num_bins) ==
    LET max_count == SetMax({histogram[b] : b \in 0..(num_bins - 1)})
        noise_threshold == max_count \div 20
        low == {b \in 0..(num_bins - 1) : histogram[b] <= noise_threshold}
        starts == Ascending({b \in low : b = 0 \/ (b - 1) \notin low})
        ends == Ascending({e \in 1..num_bins : (e - 1) \in low /\ e \notin low})
    IN  [k \in 1..Len(starts) |-> <<starts[k], ends[k]>>]

\* The filter on valleys: wide enough, centre outside the 5% margins.
WideValley(v, page_width) ==
    /\ v[2] - v[1] >= MIN_GUTTER_BINS
    /\ (v[1] + v[2]) * (BIN_WIDTH \div 2) * 20 > page_width
    /\ (v[1] + v[2]) * (BIN_WIDTH \div 2) * 20 < 19 * page_width

\* The vertical-consistency validation of one valley.
ValidValley(v, page_items, x_min, y_range) ==
    LET n == Len(page_items)
        gutter_center == x_min + (v[1] + v[2]) * (BIN_WIDTH \div 2)
        left_items == {j \in 1..n :
            page_items[j].x + effective_width(page_items[j]) <= gutter_center}
        right_items == {j \in 1..n : page_items[j].x >= gutter_center}
        left_ys == {page_items[i].y : i \in left_items}
        right_ys == {page_items[i].y : i \in right_items}
    IN  /\ Cardinality(left_items) >= MIN_ITEMS_PER_COLUMN
        /\ Cardinality(right_items) >= MIN_ITEMS_PER_COLUMN
        /\ \/ y_range <= 0
           \/ LET overlap == Max(Min(SetMax(left_ys), SetMax(right_ys))
                                 - Max(SetMin(left_ys), SetMin(right_ys)), 0)
              IN  ~(overlap * 10 < 3 * y_range)

\* Keep at most MAX_GUTTERS valleys, the widest, left to right.
LimitValleys(valid_valleys) ==
    IF Len(valid_valleys) > MAX_GUTTERS
    THEN LET widest == SubSeq(SortWidest(valid_valleys), 1, MAX_GUTTERS)
             order == Ascending({widest[k][1] : k \in 1..MAX_GUTTERS})
         IN  [k \in 1..Len(order) |->
                 CHOOSE v \in {widest[j] : j \in 1..MAX_GUTTERS} : v[1] = order[k]]
    ELSE valid_valleys

detect_columns(page_items) ==
    IF page_items = <<>> THEN <<>>
    ELSE
    LET n == Len(page_items)
        x_min == SetMin({page_items[i].x : i \in 1..n})
        x_max == SetMax({page_items[i].x + effective_width(page_items[i]) : i \in 1..n})
        page_width == x_max - x_min
        single == <<ColumnRegion(x_min, x_max)>>
    IN
    IF page_width < MIN_PAGE_WIDTH THEN single
    ELSE IF n < MIN_PAGE_ITEMS THEN single
    ELSE
    LET num_bins == Max((page_width + BIN_WIDTH - 1) \div BIN_WIDTH, 1)
        valleys == Valleys(Histogram(page_items, x_min, num_bins), num_bins)
        ys == {page_items[i].y : i \in 1..n}
        y_range == SetMax(ys) - SetMin(ys)
        validIdx == Ascending({k \in 1..Len(valleys) :
                        /\ WideValley(valleys[k], page_width)
                        /\ ValidValley(valleys[k], page_items, x_min, y_range)})
        valid_valleys == [k \in 1..Len(validIdx) |-> valleys[validIdx[k]]]
    IN  IF valid_valleys = <<>> THEN single
        ELSE BuildColumns(LimitValleys(valid_valleys), x_min, x_min, x_max)

spans_multiple_columns(item, columns) ==
    LET item_right == item.x + effective_width(item)
        overlap(col) == Max(Min(item_right, col.x_max) - Max(item.x, col.x_min), 0)
        \* overlap > (col.x_max - col.x_min) * 0.10 || overlap > 20.0
        counted == {k \in 1..Len(columns) :
                       \/ overlap(columns[k]) * 10 > columns[k].x_max - columns[k].x_min
                       \/ overlap(columns[k]) > SPAN_OVERLAP}
    IN  Cardinality(counted) >= 2

is_page_number(item) ==
    LET text == Trim(item.text)
    IN  IF text = <<>> \/ ByteLen(text) > PAGE_NUMBER_DIGITS THEN FALSE
        ELSE IF ~(\A k \in 1..Len(text) : IsAsciiDigit(text[k])) THEN FALSE
        ELSE item.y > PAGE_NUMBER_TOP \/ item.y < PAGE_NUMBER_BOTTOM

RECURSIVE Filter(_, _)
Filter(s, keep) ==
    IF s = <<>> THEN <<>>
    ELSE IF Head(s) \in keep THEN <<Head(s)>> \o Filter(Tail(s), keep)
    ELSE Filter(Tail(s), keep)

\* The merge of the spanning lines (Y descending) into the column lines.
RECURSIVE Interleave(_, _)
Interleave(spanning, column) ==
    IF spanning = <<>> THEN column
    ELSE IF column = <<>> THEN spanning
    ELSE IF Head(spanning).y >= Head(column).y
         THEN <<Head(spanning)>> \o Interleave(Tail(spanning), column)
         ELSE <<Head(column)>> \o Interleave(spanning, Tail(column))

\* The lines of one page of group_into_lines.
GroupPage(page_items) ==
    LET columns == detect_columns(page_items)
    IN  IF Len(columns) <= 1 THEN group_single_column(page_items)
        ELSE
        LET n == Len(page_items)
            all == {page_items[i] : i \in 1..n}
            spanning_items ==
                Filter(page_items, {it \in all : spans_multiple_columns(it, columns)})
            column_items ==
                Filter(page_items, {it \in all : ~spans_multiple_columns(it, columns)})
            inColumn(it, column) ==
                LET center2 == 2 * it.x + effective_width(it)
                IN  center2 >= 2 * column.x_min /\ center2 < 2 * column.x_max
            column_lines == Concat([k \in 1..Len(columns) |->
                group_single_column(Filter(column_items,
                    {it \in all : inColumn(it, columns[k])}))])
            spanning_lines == StableSort(group_single_column(spanning_items), "ydesc")
        IN  Interleave(spanning_lines, column_lines)

group_into_lines_pages_descending(its) ==
    IF its = <<>> THEN <<>>
    ELSE
    LET all == {its[i] : i \in 1..Len(its)}
        kept == Filter(its, {it \in all : ~is_page_number(it)})
        pages == Ascending({kept[i].page : i \in 1..Len(kept)})
    IN  Concat([k \in 1..Len(pages) |->
            GroupPage(Filter(kept, {it \in all : it.page = pages[Len(pages) + 1 - k]}))])

group_into_lines(its) ==
    IF its = <<>> THEN <<>>
    ELSE
    LET all == {its[i] : i \in 1..Len(its)}
        kept == Filter(its, {it \in all : ~is_page_number(it)})
        pages == Ascending({kept[i].page : i \in 1..Len(kept)})
    IN  Concat([k \in 1..Len(pages) |->
            GroupPage(Filter(kept, {it \in all : it.page = pages[k]}))])

----------------------------------------------------------------------------
(* Inputs *)

MaxItems == 3
MaxExtra == 2

Xs == {1000, 1040, 1600}
Ys == {7000, 7005, 7030}
Word == <<"a", "b">>

\* Items of one page around one left margin and one band of Y, and an item
\* 20pt below them.
ItemPool ==
    {TextItem(Word, x, y, 0, 120, 1) : x \in Xs, y \in Ys}
        \cup {TextItem(Word, 1000, 6800, 0, 120, 1)}

\* A wide item, a page-number-shaped item and an item of the next page.
SpecialPool ==
    {TextItem(Word, 1000, 6800, 3000, 120, 1),
     TextItem(<<"7">>, 1600, 500, 0, 120, 1),
     TextItem(Word, 1000, 7000, 0, 120, 2)}

\* Two blocks of ten rows, 20pt apart, with a 190pt gutter between them.
TwoColumnBase ==
    [k \in 1..20 |->
        IF k <= 10 THEN TextItem(Word, 1000, 8800 - 200 * k, 600, 120, 1)
        ELSE TextItem(Word, 3500, 8800 - 200 * (k - 10), 600, 120, 1)]

\* Five items whose stream order jumps up and down the page by 100pt.
ChaoticBase ==
    [k \in 1..5 |-> TextItem(Word, 1000, IF k % 2 = 1 THEN 6800 ELSE 7800, 0, 120, 1)]

Inputs ==
    SeqsUpTo(ItemPool, MaxItems)
        \cup {base \o e : base \in {<<>>, TwoColumnBase, ChaoticBase},
                           e \in SeqsUpTo(ItemPool \cup SpecialPool, MaxExtra)}

----------------------------------------------------------------------------
(* The layout pipeline *)

LayoutIdle ==
    /\ items = <<>>
    /\ lines = <<>>
    /\ stage = "idle"

DecodeIdle ==
    /\ operand = <<>>
    /\ font_env = <<>>
    /\ cid_cmap = <<>>
    /\ overflow_checks = FALSE
    /\ decoded = <<>>
    /\ dec_stage = "idle"

InterpIdle ==
    /\ doc = <<>>
    /\ pc = "idle"
    /\ page_pos = 0
    /\ page_state = <<>>
    /\ frames = <<>>
    /\ all_items = <<>>
    /\ result = <<>>

EmitIdle ==
    /\ em_lines = <<>>
    /\ em_options = <<>>
    /\ runs = <<>>

NotReturned == [done |-> FALSE]
Returned(v) == [done |-> TRUE, val |-> v]

CallIdle ==
    /\ call = [fn |-> "none"]
    /\ ret = NotReturned

LayoutInit ==
    /\ items \in Inputs
    /\ lines = <<>>
    /\ stage = "input"
    /\ DecodeIdle
    /\ InterpIdle
    /\ EmitIdle
    /\ CallIdle

GroupIntoLines ==
    /\ stage = "input"
    /\ lines' = group_into_lines(items)
    /\ stage' = "grouped"
    /\ UNCHANGED <<items, decodeVars, interpVars, emitVars, callVars>>

----------------------------------------------------------------------------
(* Claims about group_into_lines *)

SortedByX(its) == \A i, j \in 1..Len(its) : i < j => its[i].x <= its[j].x

\* The items group_into_lines keeps for page p, in stream order.
PageItems(its, p) ==
    Filter(its, {it \in {its[i] : i \in 1..Len(its)} :
                    it.page = p /\ ~is_page_number(it)})

PageLines(ls, p) ==
    LET RECURSIVE go(_)
        go(k) == IF k > Len(ls) THEN <<>>
                 ELSE IF ls[k].page = p THEN <<ls[k]>> \o go(k + 1) ELSE go(k + 1)
    IN  go(1)

IsMultiColumn(its, p) == Len(detect_columns(PageItems(its, p))) >= 2

\* C1: every TextLine returned by group_into_lines, on single-column and on
\* multi-column pages, has its items sorted by x ascending.
C1_LinesSortedByX ==
    stage = "grouped" => \A k \in 1..Len(lines) : SortedByX(lines[k].items)

\* A multi-column page on which a returned line holds two items that came in
\* the opposite order in the stream.
C1_Witness ==
    /\ stage = "grouped"
    /\ IsMultiColumn(items, 1)
    /\ \E k \in 1..Len(lines) : \E i, j \in 1..Len(items) :
          /\ i < j /\ items[i].x > items[j].x
          /\ Len(lines[k].items) >= 2
          /\ items[i] \in {lines[k].items[m] : m \in 1..Len(lines[k].items)}
          /\ lines[k].items[1] = items[j]

\* The joining rule as the specification words it: first is the item that
\* opened the line (the line's Y is its Y), last the item most recently added.
JoinsLine(first, last, item) ==
    /\ item.page = first.page
    /\ Abs(first.y - item.y) < 30
    /\ ~(/\ Abs(first.y - item.y) > 5
         /\ \/ Abs(item.x - first.x) < 50
            \/ item.x < last.x - 100)

RECURSIVE SumLens(_, _)
SumLens(ls, k) == IF k = 0 THEN 0 ELSE Len(ls[k].items) + SumLens(ls, k - 1)

\* ls is the segmentation of the stream its that the joining rule describes.
SegmentedByRule(its, ls) ==
    /\ SumLens(ls, Len(ls)) = Len(its)
    /\ \A k \in 1..Len(ls) :
          LET start == SumLens(ls, k - 1) + 1
              end == SumLens(ls, k)
          IN  /\ ls[k].y = its[start].y
              /\ ls[k].page = its[start].page
              /\ \A it \in {its[i] : i \in start..end} :
                    Cardinality({m \in 1..Len(ls[k].items) : ls[k].items[m] = it})
                        = Cardinality({i \in start..end : its[i] = it})
              /\ Len(ls[k].items) = end - start + 1
              /\ \A i \in (start + 1)..end : JoinsLine(its[start], its[i - 1], its[i])
              /\ end < Len(its) => ~JoinsLine(its[start], its[end], its[end + 1])

StreamOrderPage(its, p) ==
    /\ PageItems(its, p) # <<>>
    /\ ~IsMultiColumn(its, p)
    /\ ~ShouldUseYSorting(PageItems(its, p))

\* C10: in stream-order mode an item joins the most recently opened line
\* exactly when it is on the same page, within 3pt of the line's Y and not a
\* guarded case; otherwise it opens a new line.  So items that all share one Y
\* form one line, and stream neighbours 20pt apart in Y are in separate lines.
C10_StreamOrderJoin ==
    stage = "grouped" =>
        \A p \in 1..2 : StreamOrderPage(items, p) =>
            LET its == PageItems(items, p)
                ls == PageLines(lines, p)
            IN  /\ SegmentedByRule(its, ls)
                /\ (\A i \in 1..Len(its) : its[i].y = its[1].y) => Len(ls) = 1
                /\ \A i \in 1..(Len(its) - 1) :
                      Abs(its[i + 1].y - its[i].y) >= 200 =>
                          ~\E k \in 1..Len(ls) :
                              {its[i], its[i + 1]}
                                  \subseteq {ls[k].items[m] : m \in 1..Len(ls[k].items)}

\* A two-item line refuses a third item that is 2.5pt off its Y and starts
\* more than 10pt left of its last item, though not at its first item's X.
C10_Witness ==
    /\ stage = "grouped"
    /\ StreamOrderPage(items, 1)
    /\ Len(items) = 3
    /\ Len(lines) = 2
    /\ Len(lines[1].items) = 2
    /\ Abs(items[3].y - items[1].y) \in 6..29
    /\ Abs(items[3].x - items[1].x) >= 50
    /\ items[3].x < items[2].x - 100

----------------------------------------------------------------------------
(* ToUnicode CMaps and string decoding (tounicode.rs, extractor.rs).        *)
(* A decoded string is a sequence of Unicode code points; a byte is a       *)
(* number in 0..255; a font name is a sequence of one-character strings.    *)

U16 == 65536
MAX_CHAR == 1114111
SURROGATE_FIRST == 55296
SURROGATE_LAST == 57343
REPLACEMENT_CHARACTER == 65533

\* char::from_u32 succeeds exactly on the Unicode scalar values.
IsChar(u) == u >= 0 /\ u <= MAX_CHAR /\ ~(u >= SURROGATE_FIRST /\ u <= SURROGATE_LAST)

ToUnicodeCMap(char_map, ranges) == [char_map |-> char_map, ranges |-> ranges]

\* The range loop of lookup.  A range is <<start, end, base_hi, base_lo>>, its
\* u32 base written as two 16-bit halves (base = base_hi * 65536 + base_lo).
\* base + offset is u32 arithmetic: a build with overflow checks panics when
\* the sum exceeds u32, any other build wraps.
RECURSIVE LookupRanges(_, _)
LookupRanges(ranges, cid) ==
    IF ranges = <<>> THEN None
    ELSE LET start == Head(ranges)[1]
             end == Head(ranges)[2]
             offset == cid - start
             lo == Head(ranges)[4] + offset
             hi == Head(ranges)[3] + (lo \div U16)
             unicode_hi == hi % U16
             unicode_lo == lo % U16
         IN  IF cid >= start /\ cid <= end
             THEN IF hi >= U16 /\ overflow_checks THEN Panicked
                  ELSE IF unicode_hi <= MAX_CHAR \div U16 /\ IsChar(unicode_hi * U16 + unicode_lo)
                  THEN Some(<<unicode_hi * U16 + unicode_lo>>)
                  ELSE LookupRanges(Tail(ranges), cid)
             ELSE LookupRanges(Tail(ranges), cid)

lookup(cmap, cid) ==
    IF cid \in DOMAIN cmap.char_map THEN Some(cmap.char_map[cid])
    ELSE LookupRanges(cmap.ranges, cid)

\* What one 2-byte code adds in front of the decoding of the rest: its
\* lookup, or the character char::from_u32(cid) when there is one.
PushDecoded(found, cid, rest) ==
    IF found.panic \/ rest.panic THEN Panicked
    ELSE IF found.some THEN Some(found.val \o rest.val)
    ELSE IF IsChar(cid) THEN Some(<<cid>> \o rest.val)
    ELSE rest

\* Mutant of decode_cids: the two bytes of a code read low byte first.
RECURSIVE decode_cids_little_endian(_, _)
decode_cids_little_endian(cmap, bs) ==
    IF Len(bs) < 2 THEN Some(<<>>)
    ELSE PushDecoded(lookup(cmap, bs[2] * 256 + bs[1]), bs[2] * 256 + bs[1],
                     decode_cids_little_endian(cmap, SubSeq(bs, 3, Len(bs))))

\* decode_cids walks bytes.chunks(2); a chunk of one byte is skipped.  The
\* result is Some(string), or Panicked when lookup panicked.
RECURSIVE decode_cids(_, _)
decode_cids(cmap, bs) ==
    IF Len(bs) < 2 THEN Some(<<>>)
    ELSE PushDecoded(lookup(cmap, bs[1] * 256 + bs[2]), bs[1] * 256 + bs[2],
                     decode_cids(cmap, SubSeq(bs, 3, Len(bs))))

\* str::contains and str::strip_prefix on names.
Contains(hay, needle) ==
    \E i \in 1..(Len(hay) - Len(needle) + 1) :
        SubSeq(hay, i, i + Len(needle) - 1) = needle

StripPrefixF(name) == IF name # <<>> /\ Head(name) = "F" THEN Tail(name) ELSE name

\* FontCMaps::get.  by_name is the name -> CMap table as the sequence of its
\* <<name, cmap>> entries in the order the hash map iterates over them.
RECURSIVE FirstFuzzy(_, _)
FirstFuzzy(by_name, stripped) ==
    IF by_name = <<>> THEN None
    ELSE IF Contains(Head(by_name)[1], stripped) \/ Contains(stripped, Head(by_name)[1])
         THEN Some(Head(by_name)[2])
         ELSE FirstFuzzy(Tail(by_name), stripped)

FontCMaps_get(by_name, font_name) ==
    IF \E i \in 1..Len(by_name) : by_name[i][1] = font_name
    THEN Some(by_name[CHOOSE i \in 1..Len(by_name) : by_name[i][1] = font_name][2])
    ELSE FirstFuzzy(by_name, StripPrefixF(font_name))

\* FontCMaps::get_by_obj and FontCMaps::get_with_obj: the tables keyed by the
\* ToUnicode object number and by <<base font name, object number>>.
FontCMaps_get_by_obj(font_cmaps, obj_num) ==
    IF obj_num \in DOMAIN font_cmaps.by_obj THEN Some(font_cmaps.by_obj[obj_num]) ELSE None

FontCMaps_get_with_obj(font_cmaps, base_name, obj_num) ==
    IF <<base_name, obj_num>> \in DOMAIN font_cmaps.with_obj
    THEN Some(font_cmaps.with_obj[<<base_name, obj_num>>])
    ELSE None

\* bytes.iter().filter_map(|b| encoding_map.get(b)).collect()
RECURSIVE DecodeDifferences(_, _)
DecodeDifferences(encoding_map, bs) ==
    IF bs = <<>> THEN <<>>
    ELSE (IF Head(bs) \in DOMAIN encoding_map THEN <<encoding_map[Head(bs)]>> ELSE <<>>)
            \o DecodeDifferences(encoding_map, Tail(bs))

\* String::from_utf16_lossy over the u16 units: a surrogate pair is one
\* character, an unpaired surrogate becomes U+FFFD.
RECURSIVE FromUtf16Lossy(_)
FromUtf16Lossy(units) ==
    IF units = <<>> THEN <<>>
    ELSE LET u == Head(units)
             IsHigh(v) == v >= SURROGATE_FIRST /\ v <= 56319
             IsLow(v) == v >= 56320 /\ v <= SURROGATE_LAST
         IN  IF IsHigh(u) /\ Len(units) >= 2 /\ IsLow(units[2])
             THEN <<65536 + (u - SURROGATE_FIRST) * 1024 + (units[2] - 56320)>>
                      \o FromUtf16Lossy(Tail(Tail(units)))
             ELSE IF IsHigh(u) \/ IsLow(u)
             THEN <<REPLACEMENT_CHARACTER>> \o FromUtf16Lossy(Tail(units))
             ELSE <<u>> \o FromUtf16Lossy(Tail(units))

\* bytes[2..].chunks_exact(2) as big-endian u16 units.
RECURSIVE Utf16Units(_)
Utf16Units(bs) ==
    IF Len(bs) < 2 THEN <<>>
    ELSE <<bs[1] * 256 + bs[2]>> \o Utf16Units(SubSeq(bs, 3, Len(bs)))

\* The object model's decoding with the font's own encoding: env.fonts maps a
\* font to the outcome of get_font_encoding, "Err" or a byte -> string table
\* that decode_text applies byte by byte.
BuiltinDecode(font, bs) ==
    IF font.encoding = "Err" THEN None
    ELSE Some(Concat([i \in 1..Len(bs) |->
                 IF bs[i] \in DOMAIN font.table THEN font.table[bs[i]] ELSE <<>>]))

StringObject(bs) == [kind |-> "String", bytes |-> bs]
IntegerObject(n) == [kind |-> "Integer", value |-> n]
RealObject(n) == [kind |-> "Real", value |-> n]
NameObject(name) == [kind |-> "Name", name |-> name]

\* A CMap rung of the ladder: the CMap, when there is one, decodes the bytes,
\* and the rung succeeds when the decoded string is not empty.
NonEmpty(d) == IF d.panic THEN Panicked ELSE IF d.val # <<>> THEN d ELSE None

CMapRung(found, bs) ==
    IF ~found.some THEN None ELSE NonEmpty(decode_cids(found.val, bs))

\* The eight strategies of extract_text_from_operand, in source order.
Strategy(k, bs, env) ==
    LET font == env.current_font
        refs == env.font_tounicode_refs
        bases == env.font_base_names
    IN  CASE k = 1 ->
                IF font \in DOMAIN refs
                THEN CMapRung(FontCMaps_get_by_obj(env.font_cmaps, refs[font]), bs)
                ELSE None
          [] k = 2 ->
                IF font \in DOMAIN bases /\ font \in DOMAIN refs
                THEN CMapRung(FontCMaps_get_with_obj(env.font_cmaps, bases[font], refs[font]), bs)
                ELSE None
          [] k = 3 ->
                IF font \in DOMAIN bases
                THEN CMapRung(FontCMaps_get(env.font_cmaps.by_name, bases[font]), bs)
                ELSE None
          [] k = 4 -> CMapRung(FontCMaps_get(env.font_cmaps.by_name, font), bs)
          [] k = 5 ->
                IF font \in DOMAIN env.font_encodings
                THEN NonEmpty(Some(DecodeDifferences(env.font_encodings[font], bs)))
                ELSE None
          [] k = 6 ->
                IF font \in DOMAIN env.fonts THEN BuiltinDecode(env.fonts[font], bs) ELSE None
          [] k = 7 ->
                IF Len(bs) >= 2 /\ bs[1] = 254 /\ bs[2] = 255
                THEN Some(FromUtf16Lossy(Utf16Units(SubSeq(bs, 3, Len(bs)))))
                ELSE None
          [] k = 8 -> Some(bs)

Returns(r) == r.some \/ r.panic

\* The early returns of extract_text_from_operand: the first of the outcomes
\* that returns; the last one always does.
FirstReturning(s1, s2, s3, s4, s5, s6, s7, s8) ==
    IF Returns(s1) THEN s1
    ELSE IF Returns(s2) THEN s2
    ELSE IF Returns(s3) THEN s3
    ELSE IF Returns(s4) THEN s4
    ELSE IF Returns(s5) THEN s5
    ELSE IF Returns(s6) THEN s6
    ELSE IF Returns(s7) THEN s7
    ELSE s8

\* Mutant of extract_text_from_operand: the Differences map is tried before
\* the CMaps.
extract_text_from_operand_differences_first(obj, env) ==
    IF obj.kind # "String" THEN None
    ELSE FirstReturning(
             Strategy(5, obj.bytes, env), Strategy(1, obj.bytes, env),
             Strategy(2, obj.bytes, env), Strategy(3, obj.bytes, env),
             Strategy(4, obj.bytes, env), Strategy(6, obj.bytes, env),
             Strategy(7, obj.bytes, env), Strategy(8, obj.bytes, env))

extract_text_from_operand(obj, env) ==
    IF obj.kind # "String" THEN None
    ELSE FirstReturning(
             Strategy(1, obj.bytes, env), Strategy(2, obj.bytes, env),
             Strategy(3, obj.bytes, env), Strategy(4, obj.bytes, env),
             Strategy(5, obj.bytes, env), Strategy(6, obj.bytes, env),
             Strategy(7, obj.bytes, env), Strategy(8, obj.bytes, env))

(* Decoding inputs *)

MaxBytes == 3

BytePool == {0, 36, 216, 254, 255}
ExampleBytes == <<0, 36, 0, 37, 0, 3>>
ByteInputs == SeqsUpTo(BytePool, MaxBytes) \cup {ExampleBytes}

EmptyFn == [x \in {} |-> <<>>]
EmptyCMap == ToUnicodeCMap(EmptyFn, <<>>)
\* The map of test_decode_cids.
TestCMap == ToUnicodeCMap((3 :> <<32>>) @@ (36 :> <<65>>) @@ (37 :> <<66>>), <<>>)
\* A ligature entry, a range that lands in the surrogates and one behind it.
RangeCMap == ToUnicodeCMap((36 :> <<102, 105>>), <<<<0, 255, 0, 55296>>, <<0, 63, 0, 97>>>>)
\* A range whose base is the largest u32.
HighBaseCMap == ToUnicodeCMap(EmptyFn, <<<<0, 65535, 65535, 65535>>>>)
CMapPool == {EmptyCMap, TestCMap, RangeCMap, HighBaseCMap}

OneCharCMap(c) == ToUnicodeCMap((36 :> <<c>>), <<>>)

F1 == <<"F", "1">>
BaseA == <<"A">>
ToUnicodeObj == 7

NoFontEnv ==
    [current_font |-> F1, font_tounicode_refs |-> EmptyFn, font_base_names |-> EmptyFn,
     font_cmaps |-> [by_obj |-> EmptyFn, with_obj |-> EmptyFn, by_name |-> <<>>],
     font_encodings |-> EmptyFn, fonts |-> EmptyFn]

AsciiTable == [b \in 0..127 |-> <<b>>]

\* The page font tables: every table is there or not; a table that no lookup
\* could consult (a CMap by object number for a font without a ToUnicode
\* reference) is left out.
FontEnvs ==
    {[current_font |-> F1,
      font_tounicode_refs |-> refs,
      font_base_names |-> bases,
      font_cmaps |-> [by_obj |-> by_obj, with_obj |-> with_obj, by_name |-> by_name],
      font_encodings |-> encs,
      fonts |-> fonts] :
        refs \in {EmptyFn, (F1 :> ToUnicodeObj)},
        bases \in {EmptyFn, (F1 :> BaseA)},
        by_obj \in {EmptyFn, (ToUnicodeObj :> OneCharCMap(97))},
        with_obj \in {EmptyFn, (<<BaseA, ToUnicodeObj>> :> OneCharCMap(98))},
        by_name \in {<<>>, <<<<BaseA, OneCharCMap(99)>>>>, <<<<<<"1">>, OneCharCMap(100)>>>>,
                     <<<<BaseA, OneCharCMap(99)>>, <<<<"1">>, OneCharCMap(100)>>>>},
        encs \in {EmptyFn, (F1 :> (36 :> 101))},
        fonts \in {EmptyFn, (F1 :> [encoding |-> "Err", table |-> EmptyFn]),
                   (F1 :> [encoding |-> "Ok", table |-> AsciiTable])}}

ReachableFontEnvs ==
    {env \in FontEnvs :
        /\ env.font_cmaps.by_obj # EmptyFn => env.font_tounicode_refs # EmptyFn
        /\ env.font_cmaps.with_obj # EmptyFn =>
              env.font_tounicode_refs # EmptyFn /\ env.font_base_names # EmptyFn}

DecodeInit ==
    /\ dec_stage = "input"
    /\ decoded = <<>>
    /\ \/ /\ operand \in {StringObject(bs) : bs \in ByteInputs}
          /\ cid_cmap \in CMapPool
          /\ overflow_checks \in BOOLEAN
          /\ font_env = NoFontEnv
       \/ /\ operand \in {StringObject(bs) : bs \in ByteInputs} \cup {IntegerObject(36)}
          /\ cid_cmap = EmptyCMap
          /\ overflow_checks = FALSE
          /\ font_env \in ReachableFontEnvs
    /\ LayoutIdle
    /\ InterpIdle
    /\ EmitIdle
    /\ CallIdle

\* ToUnicodeCMap::decode_cids on the operand's bytes.
DecodeCids ==
    /\ dec_stage = "input"
    /\ operand.kind = "String"
    /\ decoded' = decode_cids(cid_cmap, operand.bytes)
    /\ dec_stage' = "cids"
    /\ UNCHANGED <<operand, font_env, cid_cmap, overflow_checks, layoutVars, interpVars, emitVars, callVars>>

\* extract_text_from_operand on the operand with the page's font tables.
ExtractTextFromOperand ==
    /\ dec_stage = "input"
    /\ decoded' = extract_text_from_operand(operand, font_env)
    /\ dec_stage' = "operand"
    /\ UNCHANGED <<operand, font_env, cid_cmap, overflow_checks, layoutVars, interpVars, emitVars, callVars>>

DecodeNext == DecodeCids \/ ExtractTextFromOperand
SpecDecode == DecodeInit /\ [][DecodeNext]_vars

(* Claims about decoding *)

\* What the k-th 2-byte code of bs contributes, an unmapped code giving the
\* character with that code point.
CodeAt(bs, k) == bs[2 * k - 1] * 256 + bs[2 * k]

PieceAsCodePoint(cmap, cid) ==
    IF lookup(cmap, cid).some THEN lookup(cmap, cid).val ELSE <<cid>>

PieceIfChar(cmap, cid) ==
    IF lookup(cmap, cid).some THEN lookup(cmap, cid).val
    ELSE IF IsChar(cid) THEN <<cid>> ELSE <<>>

----------------------------------------------------------------------------
(* The content-stream interpreter (extractor.rs).                           *)
(* A matrix is <<a, b, c, d, e, f>>: a..d are whole scale factors, e and f  *)
(* lengths in tenths of a point, as are font sizes and the numbers of Td.   *)
(* A glyph width is in font units, units_per_em of them to the em           *)
(* (units_scale is 1 / units_per_em); a number of a TJ array is in          *)
(* thousandths of the font size.  The font tables of a page or form may     *)
(* carry font_widths; without it a shown string has width 0 and does not    *)
(* advance the text matrix.  The pages carry no link annotations.           *)

IDENTITY == <<1, 0, 0, 1, 0, 0>>
DEFAULT_FONT_SIZE == 120
TJ_SPACE_THRESHOLD == 120
SPACE == 32

multiply_matrices(m1, m2) ==
    <<m1[1] * m2[1] + m1[2] * m2[3],
      m1[1] * m2[2] + m1[2] * m2[4],
      m1[3] * m2[1] + m1[4] * m2[3],
      m1[3] * m2[2] + m1[4] * m2[4],
      m1[5] * m2[1] + m1[6] * m2[3] + m2[5],
      m1[5] * m2[2] + m1[6] * m2[4] + m2[6]>>

\* f32::sqrt on the sums of squares met here (whole scale factors).
Sqrt(n) == CHOOSE r \in 0..n : r * r <= n /\ (r + 1) * (r + 1) > n

effective_font_size(base_size, text_matrix) ==
    LET scale_x == Sqrt(text_matrix[1] * text_matrix[1] + text_matrix[2] * text_matrix[2])
        scale_y == Sqrt(text_matrix[3] * text_matrix[3] + text_matrix[4] * text_matrix[4])
    IN  base_size * Max(scale_x, scale_y)

get_number(obj) ==
    IF obj.kind \in {"Integer", "Real"} THEN Some(obj.value) ELSE None

UnwrapOr(opt, default) == IF opt.some THEN opt.val ELSE default

\* char::is_whitespace on the code points met here; str::trim().is_empty().
IsWhitespaceChar(c) == c \in {9, 10, 11, 12, 13, 32, 133, 160}
IsBlank(text) == \A i \in 1..Len(text) : IsWhitespaceChar(text[i])

Operation(operator, operands) == [operator |-> operator, operands |-> operands]
ArrayObject(elements) == [kind |-> "Array", elements |-> elements]

\* The font tables extract_text_from_operand is handed, for the current font.
DecodeEnv(font_tables, current_font) == [font_tables EXCEPT !.current_font = current_font]

NewTextItem(text, m, width, rendered_size, font, page_num) ==
    [text |-> text, x |-> m[5], y |-> m[6], width |-> width, height |-> rendered_size,
     font |-> font, font_size |-> rendered_size, page |-> page_num, item_type |-> "Text"]

\* The text is format!("[Image: {}]", xobj_name), the name a sequence of code points.
NewImageItem(xobj_name, ctm, page_num) ==
    [text |-> <<91, 73, 109, 97, 103, 101, 58, 32>> \o xobj_name \o <<93>>, x |-> ctm[5], y |-> ctm[6],
     width |-> Abs(ctm[1]) * 10, height |-> Abs(ctm[4]) * 10,
     font |-> <<>>, font_size |-> 0, page |-> page_num, item_type |-> "Image"]

FontWidthInfo(widths, default_width, space_width, units_per_em) ==
    [widths |-> widths, default_width |-> default_width, space_width |-> space_width,
     units_per_em |-> units_per_em]

\* build_font_widths: the width tables of the fonts of a page or form.
FontWidthsOf(font_tables) ==
    IF "font_widths" \in DOMAIN font_tables THEN font_tables.font_widths ELSE EmptyFn

RECURSIVE GlyphUnits(_, _)
GlyphUnits(bytes, font_info) ==
    IF bytes = <<>> THEN 0
    ELSE (IF Head(bytes) \in DOMAIN font_info.widths THEN font_info.widths[Head(bytes)]
          ELSE font_info.default_width) + GlyphUnits(Tail(bytes), font_info)

\* The width of a string of a simple font in text space, a whole number of
\* tenths of a point for the widths and sizes met here.
compute_string_width_ts(bytes, font_info, font_size) ==
    (GlyphUnits(bytes, font_info) * font_size) \div font_info.units_per_em

\* The threshold of a TJ array, as a fraction n / d of thousandths:
\* (space_width * units_scale * 1000 * 0.4).clamp(80, 200), or 120.
SpaceThreshold(font_widths, current_font) ==
    IF current_font \in DOMAIN font_widths
    THEN LET n == font_widths[current_font].space_width * 400
             d == font_widths[current_font].units_per_em
         IN  IF n < 80 * d THEN [n |-> 80, d |-> 1]
             ELSE IF n > 200 * d THEN [n |-> 200, d |-> 1]
             ELSE [n |-> n, d |-> d]
    ELSE [n |-> TJ_SPACE_THRESHOLD, d |-> 1]

\* n < -space_threshold
BelowThreshold(v, space_threshold) == v * space_threshold.d < -space_threshold.n

\* Mutant of TJElement: the check that the text does not end with a space is
\* left out.
TJElement_repeats_space(element, combined_text, text, space_threshold) ==
    IF element.kind \in {"Integer", "Real"}
    THEN IF BelowThreshold(element.value, space_threshold) /\ combined_text # <<>>
         THEN Append(combined_text, SPACE)
         ELSE combined_text
    ELSE IF text.some THEN combined_text \o text.val ELSE combined_text

\* One element of a TJ array: a number may add a space to the combined text,
\* anything else adds its decoded text, when it has one.
TJElement(element, combined_text, text, space_threshold) ==
    IF element.kind \in {"Integer", "Real"}
    THEN IF /\ BelowThreshold(element.value, space_threshold)
            /\ combined_text # <<>>
            /\ combined_text[Len(combined_text)] # SPACE
         THEN Append(combined_text, SPACE)
         ELSE combined_text
    ELSE IF text.some THEN combined_text \o text.val ELSE combined_text

\* The loop over the elements of a TJ array: the combined text.
RECURSIVE TJCombine(_, _, _)
TJCombine(elements, combined_text, env) ==
    IF elements = <<>> THEN combined_text
    ELSE TJCombine(Tail(elements),
                   TJElement(Head(elements), combined_text,
                             extract_text_from_operand(Head(elements), env),
                             SpaceThreshold(FontWidthsOf(env), env.current_font)),
                   env)

\* total_width_ts of a TJ array: the numbers move by -n / 1000 of the font
\* size, the strings by their width when the font has a width table.
RECURSIVE TJWidthTs(_, _, _)
TJWidthTs(elements, env, font_size) ==
    IF elements = <<>> THEN 0
    ELSE LET element == Head(elements)
             font_widths == FontWidthsOf(env)
         IN  (CASE element.kind \in {"Integer", "Real"} ->
                       (-element.value * font_size) \div 1000
                [] element.kind = "String" /\ env.current_font \in DOMAIN font_widths ->
                       compute_string_width_ts(element.bytes,
                                               font_widths[env.current_font], font_size)
                [] OTHER -> 0)
             + TJWidthTs(Tail(elements), env, font_size)

\* The width in text space by which a show operator advances the text
\* matrix, None when it leaves the matrix alone and the item's width at 0.
ShownWidthTs(op, env, font_size) ==
    IF op.operands = <<>> \/ env.current_font \notin DOMAIN FontWidthsOf(env) THEN None
    ELSE CASE op.operator = "Tj" /\ op.operands[1].kind = "String" ->
                  Some(compute_string_width_ts(op.operands[1].bytes,
                           FontWidthsOf(env)[env.current_font], font_size))
           [] op.operator = "TJ" /\ op.operands[1].kind = "Array" ->
                  Some(TJWidthTs(op.operands[1].elements, env, font_size))
           [] OTHER -> None

\* The text a show operator pushes as an item, <<>> when it pushes none.
ShownText(op, env) ==
    IF op.operands = <<>> THEN <<>>
    ELSE IF op.operator = "TJ"
         THEN IF op.operands[1].kind = "Array"
              THEN TJCombine(op.operands[1].elements, <<>>, env)
              ELSE <<>>
         ELSE UnwrapOr(extract_text_from_operand(op.operands[1], env), <<>>)

\* The local state of extract_page_text_items when the loop starts.
PageState(page_num) ==
    [page_num |-> page_num, ip |-> 1, items |-> <<>>,
     ctm |-> IDENTITY, ctm_stack |-> <<>>,
     current_font |-> <<>>, current_font_size |-> DEFAULT_FONT_SIZE,
     text_matrix |-> IDENTITY, line_matrix |-> IDENTITY, in_text_block |-> FALSE]

NumberOr(operands, i, default) == UnwrapOr(get_number(operands[i]), default)

\* The show-text part of Tj, TJ and ' in the page loop.
PushText(st, text, ctm, w_ts) ==
    IF IsBlank(text) THEN st
    ELSE [st EXCEPT
            !.items = Append(@,
                NewTextItem(text, multiply_matrices(st.text_matrix, ctm),
                    IF w_ts.some
                    THEN Abs(w_ts.val * (st.text_matrix[1] * ctm[1] + st.text_matrix[2] * ctm[3]))
                    ELSE 0,
                    effective_font_size(st.current_font_size, st.text_matrix),
                    st.current_font, st.page_num)),
            !.text_matrix[5] = IF w_ts.some THEN @ + w_ts.val * st.text_matrix[1] ELSE @,
            !.text_matrix[6] = IF w_ts.some THEN @ + w_ts.val * st.text_matrix[2] ELSE @]

PageShow(st, op, font_tables) ==
    PushText(st, ShownText(op, DecodeEnv(font_tables, st.current_font)), st.ctm,
             ShownWidthTs(op, DecodeEnv(font_tables, st.current_font), st.current_font_size))

\* The Tf arm of the page loop.
PageTf(st, op) ==
    IF Len(op.operands) < 2 THEN st
    ELSE [st EXCEPT
            !.current_font = IF op.operands[1].kind = "Name" THEN op.operands[1].name ELSE @,
            !.current_font_size = NumberOr(op.operands, 2, @)]

\* "q": ctm_stack.push(ctm).
SaveCtm(st) == [st EXCEPT !.ctm_stack = Append(@, st.ctm)]

RestoreCtm_ignored(st) == st

\* "Q": if let Some(saved) = ctm_stack.pop() { ctm = saved; }
RestoreCtm(st) ==
    IF st.ctm_stack = <<>> THEN st
    ELSE [st EXCEPT !.ctm = st.ctm_stack[Len(st.ctm_stack)],
                    !.ctm_stack = SubSeq(@, 1, Len(@) - 1)]

\* The leading of T* and ': 1.2 times the font size.
LineHeight(font_size) == (font_size * 12) \div 10

\* line_matrix[5] -= current_font_size * 1.2; text_matrix = line_matrix;
NextLine(st) ==
    [st EXCEPT !.line_matrix[6] = @ - LineHeight(st.current_font_size),
               !.text_matrix = [st.line_matrix EXCEPT
                                    ![6] = @ - LineHeight(st.current_font_size)]]

\* One arm of the match in the loop of extract_page_text_items, but for the
\* call of extract_form_xobject_text, which PageOperator makes.
PageOp(st, op, pg) ==
    LET o == op.operator
        n == op.operands
    IN  CASE o = "q" -> SaveCtm(st)
          [] o = "Q" -> RestoreCtm(st)
          [] o = "cm" ->
                IF Len(n) < 6 THEN st
                ELSE [st EXCEPT !.ctm = multiply_matrices(
                         <<NumberOr(n, 1, 1), NumberOr(n, 2, 0), NumberOr(n, 3, 0),
                           NumberOr(n, 4, 1), NumberOr(n, 5, 0), NumberOr(n, 6, 0)>>, @)]
          [] o = "BT" -> [st EXCEPT !.in_text_block = TRUE,
                                    !.text_matrix = IDENTITY, !.line_matrix = IDENTITY]
          [] o = "ET" -> [st EXCEPT !.in_text_block = FALSE]
          [] o = "Tf" -> PageTf(st, op)
          [] o \in {"Td", "TD"} ->
                IF Len(n) < 2 THEN st
                ELSE LET moved == [st.line_matrix EXCEPT ![5] = @ + NumberOr(n, 1, 0),
                                                         ![6] = @ + NumberOr(n, 2, 0)]
                     IN  [st EXCEPT !.line_matrix = moved, !.text_matrix = moved]
          [] o = "Tm" ->
                IF Len(n) < 6 THEN st
                ELSE LET m == <<NumberOr(n, 1, 1), NumberOr(n, 2, 0), NumberOr(n, 3, 0),
                                NumberOr(n, 4, 1), NumberOr(n, 5, 0), NumberOr(n, 6, 0)>>
                     IN  [st EXCEPT !.text_matrix = m, !.line_matrix = m]
          [] o = "T*" -> NextLine(st)
          [] o \in {"Tj", "TJ"} ->
                IF st.in_text_block THEN PageShow(st, op, pg.font_tables) ELSE st
          [] o = "'" ->
                PageShow(NextLine(st), op, pg.font_tables)
          [] o = "Do" ->
                IF /\ n # <<>> /\ n[1].kind = "Name" /\ n[1].name \in DOMAIN pg.xobjects
                   /\ pg.xobjects[n[1].name].subtype = "Image"
                THEN [st EXCEPT !.items = Append(@, NewImageItem(n[1].name, st.ctm, st.page_num))]
                ELSE st
          [] OTHER -> st

\* The local state of extract_form_xobject_text when the loop starts.
FormState(form_id, parent_ctm, page_num) ==
    [form_id |-> form_id, page_num |-> page_num, ip |-> 1, items |-> <<>>,
     parent_ctm |-> parent_ctm,
     current_font |-> <<>>, current_font_size |-> DEFAULT_FONT_SIZE,
     text_matrix |-> IDENTITY, in_text_block |-> FALSE]

FormShow(st, op, font_tables) ==
    PushText(st, ShownText(op, DecodeEnv(font_tables, st.current_font)), st.parent_ctm,
             ShownWidthTs(op, DecodeEnv(font_tables, st.current_font), st.current_font_size))

\* One arm of the match in the loop of extract_form_xobject_text.
FormOp(st, op, form) ==
    LET o == op.operator
        n == op.operands
    IN  CASE o = "BT" -> [st EXCEPT !.in_text_block = TRUE, !.text_matrix = IDENTITY]
          [] o = "ET" -> [st EXCEPT !.in_text_block = FALSE]
          [] o = "Tf" ->
                IF Len(n) < 2 THEN st
                ELSE [st EXCEPT
                        !.current_font = IF n[1].kind = "Name" THEN n[1].name ELSE @,
                        !.current_font_size = NumberOr(n, 2, DEFAULT_FONT_SIZE)]
          [] o \in {"Td", "TD"} ->
                IF Len(n) < 2 THEN st
                ELSE [st EXCEPT !.text_matrix[5] = @ + NumberOr(n, 1, 0),
                                !.text_matrix[6] = @ + NumberOr(n, 2, 0)]
          [] o = "Tm" ->
                IF Len(n) < 6 THEN st
                ELSE [st EXCEPT !.text_matrix =
                         <<NumberOr(n, 1, 1), NumberOr(n, 2, 0), NumberOr(n, 3, 0),
                           NumberOr(n, 4, 1), NumberOr(n, 5, 0), NumberOr(n, 6, 0)>>]
          [] o \in {"Tj", "TJ"} ->
                IF st.in_text_block THEN FormShow(st, op, form.font_tables) ELSE st
          [] OTHER -> st

\* The Form XObject named by the operand of a Do, looked up in xobjects.
NoForm == 0
DoTarget(op, xobjects) ==
    IF /\ op.operator = "Do" /\ op.operands # <<>> /\ op.operands[1].kind = "Name"
       /\ op.operands[1].name \in DOMAIN xobjects
       /\ xobjects[op.operands[1].name].subtype = "Form"
    THEN xobjects[op.operands[1].name].id
    ELSE NoForm

\* Mutant of FormCallee: a Do inside a form interprets the named form.
FormCallee_recurses(op, form) == DoTarget(op, form.xobjects)

\* The form that an operator of a form's content makes the interpreter enter.
\* The loop of extract_form_xobject_text has no arm for Do (it falls to
\* `_ => {}`), and none of its arms calls extract_form_xobject_text.
FormCallee(op, form) == NoForm

(* Documents *)

MaxOps == 3
MaxDepth == 3

Content(operations) == [ok |-> TRUE, operations |-> operations]
\* A content stream that cannot be fetched or decoded.
BadContent == [ok |-> FALSE, operations |-> <<>>]

Fm1 == <<70, 109, 49>>
Fm2 == <<70, 109, 50>>
Im1 == <<73, 109, 49>>
FormXObject(id) == [subtype |-> "Form", id |-> id]
ImageXObject == [subtype |-> "Image", id |-> NoForm]

OpBT == Operation("BT", <<>>)
OpET == Operation("ET", <<>>)
OpTf(size) == Operation("Tf", <<NameObject(F1), size>>)
OpTj(c) == Operation("Tj", <<StringObject(<<c>>)>>)
OpCm == Operation("cm", <<IntegerObject(2), IntegerObject(0), IntegerObject(0),
                          IntegerObject(2), IntegerObject(100), IntegerObject(0)>>)
OpDo(name) == Operation("Do", <<NameObject(name)>>)
\* A size operand that is not a number.
NotANumber == NameObject(<<"x">>)

PageOpPool ==
    {OpBT, OpET, OpTf(IntegerObject(100)), OpTf(NotANumber), OpTj(65), OpCm,
     OpDo(Fm1), OpDo(Im1)}

Form(operations, xobjects) ==
    [content |-> operations, xobjects |-> xobjects, font_tables |-> NoFontEnv]

\* The Form XObjects of a document, by object id: a form that invokes a second
\* one, a form that invokes itself, two forms that invoke each other, and a
\* form whose stream cannot be decoded.
FormTables ==
    {(1 :> Form(Content(<<OpCm, OpBT, OpTf(IntegerObject(200)), OpTf(NotANumber),
                          OpTj(66), OpET, OpDo(Fm2)>>), (Fm2 :> FormXObject(2))))
        @@ (2 :> Form(Content(<<OpBT, OpTj(67), OpET>>), EmptyFn)),
     (1 :> Form(Content(<<OpBT, OpTj(66), OpET, OpDo(Fm1)>>), (Fm1 :> FormXObject(1)))),
     (1 :> Form(Content(<<OpDo(Fm2)>>), (Fm2 :> FormXObject(2))))
        @@ (2 :> Form(Content(<<OpBT, OpTj(67), OpET, OpDo(Fm1)>>), (Fm1 :> FormXObject(1)))),
     (1 :> Form(BadContent, EmptyFn))}

Page(content) ==
    [content |-> content, font_tables |-> NoFontEnv,
     xobjects |-> (Fm1 :> FormXObject(1)) @@ (Im1 :> ImageXObject)]

LastPages == {<<>>, <<Page(BadContent)>>, <<Page(Content(<<OpBT, OpTj(68)>>))>>}

Documents ==
    {[pages |-> <<Page(Content(operations))>> \o last, forms |-> forms] :
        operations \in SeqsUpTo(PageOpPool, MaxOps), last \in LastPages, forms \in FormTables}
        \cup {[pages |-> <<Page(BadContent)>>, forms |-> forms] : forms \in FormTables}

Ok(its) == [status |-> "Ok", items |-> its]
Err == [status |-> "Err", items |-> <<>>]

InterpInit ==
    /\ doc \in Documents
    /\ pc = "next_page"
    /\ page_pos = 1
    /\ page_state = <<>>
    /\ frames = <<>>
    /\ all_items = <<>>
    /\ result = <<>>
    /\ LayoutIdle
    /\ DecodeIdle
    /\ EmitIdle
    /\ CallIdle

CurrentPage == doc.pages[page_pos]
TopFrame == frames[Len(frames)]
Loadable(form_id) == form_id \in DOMAIN doc.forms /\ doc.forms[form_id].content.ok

\* extract_positioned_text_from_doc: the next page's content is fetched and
\* decoded; a failure leaves the function through `?`.
StartPage ==
    /\ pc = "next_page"
    /\ page_pos <= Len(doc.pages)
    /\ IF CurrentPage.content.ok
       THEN /\ page_state' = PageState(page_pos)
            /\ pc' = "page_ops"
            /\ UNCHANGED result
       ELSE /\ result' = Err
            /\ pc' = "done"
            /\ UNCHANGED page_state
    /\ UNCHANGED <<doc, page_pos, frames, all_items, layoutVars, decodeVars, emitVars, callVars>>

\* One turn of the loop of extract_page_text_items.  A Do that names a Form
\* XObject enters extract_form_xobject_text with the current CTM.
PageOperator ==
    /\ pc = "page_ops"
    /\ frames = <<>>
    /\ page_state.ip <= Len(CurrentPage.content.operations)
    /\ LET op == CurrentPage.content.operations[page_state.ip]
           form_id == DoTarget(op, CurrentPage.xobjects)
       IN  IF form_id # NoForm
           THEN IF Loadable(form_id)
                THEN /\ frames' = <<FormState(form_id, page_state.ctm, page_state.page_num)>>
                     /\ UNCHANGED page_state
                ELSE /\ page_state' = [page_state EXCEPT !.ip = @ + 1]
                     /\ UNCHANGED frames
           ELSE /\ page_state' = [PageOp(page_state, op, CurrentPage) EXCEPT !.ip = @ + 1]
                /\ UNCHANGED frames
    /\ UNCHANGED <<doc, pc, page_pos, all_items, result, layoutVars, decodeVars, emitVars, callVars>>

\* One turn of the loop of extract_form_xobject_text.
FormOperator ==
    /\ frames # <<>>
    /\ TopFrame.ip <= Len(doc.forms[TopFrame.form_id].content.operations)
    /\ LET form == doc.forms[TopFrame.form_id]
           op == form.content.operations[TopFrame.ip]
           callee == FormCallee(op, form)
       IN  IF callee # NoForm /\ Loadable(callee) /\ Len(frames) < MaxDepth
           THEN frames' = Append(frames, FormState(callee, TopFrame.parent_ctm, TopFrame.page_num))
           ELSE frames' = [frames EXCEPT ![Len(frames)] = [FormOp(@, op, form) EXCEPT !.ip = @ + 1]]
    /\ UNCHANGED <<doc, pc, page_pos, page_state, all_items, result, layoutVars, decodeVars, emitVars, callVars>>

\* extract_form_xobject_text returns its items, which the caller appends.
FormReturn ==
    /\ frames # <<>>
    /\ TopFrame.ip > Len(doc.forms[TopFrame.form_id].content.operations)
    /\ IF Len(frames) = 1
       THEN /\ page_state' = [page_state EXCEPT !.items = @ \o TopFrame.items, !.ip = @ + 1]
            /\ frames' = <<>>
       ELSE /\ frames' = [SubSeq(frames, 1, Len(frames) - 1) EXCEPT
                             ![Len(frames) - 1].items = @ \o TopFrame.items,
                             ![Len(frames) - 1].ip = @ + 1]
            /\ UNCHANGED page_state
    /\ UNCHANGED <<doc, pc, page_pos, all_items, result, layoutVars, decodeVars, emitVars, callVars>>

\* extract_page_text_items returns Ok(items); the caller extends all_items.
EndPage ==
    /\ pc = "page_ops"
    /\ frames = <<>>
    /\ page_state.ip > Len(CurrentPage.content.operations)
    /\ all_items' = all_items \o page_state.items
    /\ page_pos' = page_pos + 1
    /\ pc' = "next_page"
    /\ UNCHANGED <<doc, page_state, frames, result, layoutVars, decodeVars, emitVars, callVars>>

\* extract_positioned_text_from_doc returns Ok(all_items) after the last page.
Finish ==
    /\ pc = "next_page"
    /\ page_pos > Len(doc.pages)
    /\ result' = Ok(all_items)
    /\ pc' = "done"
    /\ UNCHANGED <<doc, page_pos, page_state, frames, all_items, layoutVars, decodeVars, emitVars, callVars>>

InterpNext == StartPage \/ PageOperator \/ FormOperator \/ FormReturn \/ EndPage \/ Finish
SpecInterp == InterpInit /\ [][InterpNext]_vars

(* Claims about the interpreter *)

\* C4: when the content of a page cannot be fetched or decoded, extraction
\* still returns Ok, with the items the earlier pages produced.
C4_BadPageKeepsItems ==
    pc = "done" => result.status = "Ok" /\ result.items = all_items

IsNumber(obj) == obj.kind \in {"Integer", "Real"}
IsTfWithoutSize(op) ==
    op.operator = "Tf" /\ Len(op.operands) >= 2 /\ ~IsNumber(op.operands[2])

PageOpNow == CurrentPage.content.operations[page_state.ip]
FormOpNow == doc.forms[TopFrame.form_id].content.operations[TopFrame.ip]

AtPageOp ==
    pc = "page_ops" /\ frames = <<>> /\ page_state.ip <= Len(CurrentPage.content.operations)
AtFormOp ==
    frames # <<>> /\ TopFrame.ip <= Len(doc.forms[TopFrame.form_id].content.operations)

\* C5: a Tf whose size operand is not a number leaves the current font size
\* as it was, in page content and in Form XObject content.
C5_TfKeepsSize ==
    [][/\ AtPageOp /\ IsTfWithoutSize(PageOpNow) =>
            page_state'.current_font_size = page_state.current_font_size
       /\ AtFormOp /\ IsTfWithoutSize(FormOpNow) =>
            frames'[Len(frames)].current_font_size = TopFrame.current_font_size]_vars

\* The interpretation the specification describes: the content of a form is
\* interpreted like page content, starting from the CTM at its Do, and so are
\* the forms it invokes.
RECURSIVE Interpreted(_, _, _, _)
Interpreted(operations, st, xobjects, depth) ==
    IF operations = <<>> THEN st
    ELSE LET op == Head(operations)
             form_id == DoTarget(op, xobjects)
         IN  IF form_id # NoForm /\ Loadable(form_id) /\ depth < MaxDepth
             THEN Interpreted(Tail(operations),
                      [st EXCEPT !.items = @ \o
                          Interpreted(doc.forms[form_id].content.operations,
                                      [PageState(st.page_num) EXCEPT !.ctm = st.ctm],
                                      doc.forms[form_id].xobjects, depth + 1).items],
                      xobjects, depth)
             ELSE Interpreted(Tail(operations),
                      PageOp(st, op, [xobjects |-> xobjects, font_tables |-> NoFontEnv]),
                      xobjects, depth)

\* The forms a form's content invokes, and those it reaches in n steps.
Invokes(f) ==
    {DoTarget(doc.forms[f].content.operations[i], doc.forms[f].xobjects) :
        i \in 1..Len(doc.forms[f].content.operations)} \ {NoForm}

RECURSIVE Reaches(_, _)
Reaches(f, n) ==
    IF n = 0 THEN {}
    ELSE Invokes(f) \cup UNION {Reaches(g, n - 1) : g \in Invokes(f) \cap DOMAIN doc.forms}

Acyclic == \A f \in DOMAIN doc.forms : f \notin Reaches(f, Cardinality(DOMAIN doc.forms))

Placed(its) == {<<its[i].text, its[i].x, its[i].y, its[i].page>> : i \in 1..Len(its)}

\* C6: text shown in a Form XObject, also one invoked from within another
\* form, is among the items of the page, at the position that the CTMs of
\* all enclosing levels, cm operators inside the forms included, give it.
C6_FormsInterpretedRecursively ==
    pc = "done" /\ result.status = "Ok" /\ Acyclic =>
        \A p \in 1..Len(doc.pages) :
            Placed(Interpreted(doc.pages[p].content.operations, PageState(p),
                               doc.pages[p].xobjects, 0).items)
                \subseteq Placed(result.items)

\* The steps still to take: one per operator left in each active content,
\* one per return, and the interpretation of the forms the page operators
\* left will enter.
RECURSIVE SumTo(_, _)
SumTo(f, n) == IF n = 0 THEN 0 ELSE f[n] + SumTo(f, n - 1)

OperatorWork(op, xobjects) ==
    IF DoTarget(op, xobjects) # NoForm /\ Loadable(DoTarget(op, xobjects))
    THEN Len(doc.forms[DoTarget(op, xobjects)].content.operations) + 2
    ELSE 1

OperatorsWork(p, from) ==
    LET operations == doc.pages[p].content.operations
    IN  SumTo([i \in 1..Len(operations) |->
                  IF i >= from THEN OperatorWork(operations[i], doc.pages[p].xobjects) ELSE 0],
              Len(operations))

PagesWork(from) ==
    SumTo([p \in 1..Len(doc.pages) |->
              IF p >= from THEN 2 + OperatorsWork(p, 1) ELSE 0], Len(doc.pages)) + 1

FramesWork ==
    SumTo([k \in 1..Len(frames) |->
              Len(doc.forms[frames[k].form_id].content.operations) - frames[k].ip
                  + (IF k = Len(frames) THEN 2 ELSE 1)], Len(frames))

Work ==
    CASE pc = "done" -> 0
      [] pc = "next_page" -> PagesWork(page_pos)
      [] pc = "page_ops" ->
            FramesWork + 1 + PagesWork(page_pos + 1)
                + OperatorsWork(page_pos, IF frames = <<>> THEN page_state.ip
                                          ELSE page_state.ip + 1)
      [] OTHER -> 0

\* C7: interpretation terminates, never more than one form deep: every step
\* lessens the work left, which is never negative, and a step can be taken
\* until the result is returned, also when forms invoke themselves or each
\* other.
C7_Terminates ==
    /\ [](Len(frames) <= 1 /\ Work >= 0 /\ (pc # "done" => ENABLED InterpNext))
    /\ [][Work' < Work]_vars

\* The interpreter is inside a form and has passed the Do by which the form
\* invokes itself.
C7_Witness ==
    /\ frames # <<>>
    /\ TopFrame.ip > 1
    /\ DoTarget(doc.forms[TopFrame.form_id].content.operations[TopFrame.ip - 1],
                doc.forms[TopFrame.form_id].xobjects) = TopFrame.form_id

----------------------------------------------------------------------------
(* The Markdown emitter: markdown.rs, and TextLine::text of extractor.rs.   *)
(* The emitter runs with detect_code, detect_bold, detect_italic,          *)
(* fix_hyphenation, remove_page_numbers and format_urls off; sizes and      *)
(* lengths are exact tenths of a point.  "a-acute" stands for U+00E1.       *)

LOWERCASE ==
    {"a", "b", "c", "d", "e", "f", "g", "h", "i", "j", "k", "l", "m", "n", "o", "p", "q",
     "r", "s", "t", "u", "v", "w", "x", "y", "z", "a-acute"}
UPPERCASE ==
    {"A", "B", "C", "D", "E", "F", "G", "H", "I", "J", "K", "L", "M", "N", "O", "P", "Q",
     "R", "S", "T", "U", "V", "W", "X", "Y", "Z"}
IsLowercase(c) == c \in LOWERCASE
IsUppercase(c) == c \in UPPERCASE
IsAlphabetic(c) == IsLowercase(c) \/ IsUppercase(c)
IsAlphanumeric(c) == IsAlphabetic(c) \/ IsAsciiDigit(c)
IsAsciiAlphabetic(c) == IsAlphabetic(c) /\ c # "a-acute"

StartsWith(t, prefix) == Len(t) >= Len(prefix) /\ SubSeq(t, 1, Len(prefix)) = prefix
EndsWith(t, c) == t # <<>> /\ t[Len(t)] = c

\* should_join_items: whether two neighbours of a line are glued without a
\* space.  0.15, 0.45, 0.8, 0.3 and 0.5 of the source are kept as fractions.
should_join_items(prev_item, curr_item) ==
    LET prev_trimmed == TrimEnd(prev_item.text)
        curr_trimmed == TrimStart(curr_item.text)
        has_prev == prev_trimmed # <<>>
        has_curr == curr_trimmed # <<>>
        p == IF has_prev THEN prev_trimmed[Len(prev_trimmed)] ELSE ""
        c == IF has_curr THEN curr_trimmed[1] ELSE ""
        \* gap and char_width, both times 1000
        gap == (curr_item.x - prev_item.x) * 1000 - Len(prev_item.text) * prev_item.font_size * 450
        char_width == prev_item.font_size * 450
    IN  IF EndsWith(prev_item.text, " ") \/ StartsWith(curr_item.text, <<" ">>) THEN FALSE
        ELSE IF has_curr /\ c \in {".", ",", ";", "!", "?", ")", "]", "}", "'"} THEN TRUE
        ELSE IF has_prev /\ has_curr /\ p = ":" /\ IsAlphanumeric(c) THEN FALSE
        ELSE IF prev_item.width > 0
             THEN (curr_item.x - (prev_item.x + prev_item.width)) * 100 < prev_item.font_size * 15
        ELSE IF has_prev /\ has_curr /\ IsAlphabetic(p) /\ IsAlphabetic(c)
             THEN IF (IsUppercase(p) /\ IsUppercase(c)) \/ (IsLowercase(p) /\ IsLowercase(c))
                  THEN gap * 10 < char_width * 8
                  ELSE IF IsLowercase(p) /\ IsUppercase(c) THEN FALSE
                  ELSE gap * 10 < char_width * 3
        ELSE gap * 10 < char_width * 5

\* TextLine::needs_space_between; built is the text built so far.
needs_space_between(prev_item, item, built) ==
    LET y_diff == Abs(item.y - prev_item.y)
        is_sub_super == item.font_size * 100 < prev_item.font_size * 85 /\ y_diff > 10
        was_sub_super == prev_item.font_size * 100 < item.font_size * 85 /\ y_diff > 10
    IN  ~(\/ EndsWith(built, "-")
          \/ Trim(item.text) = <<"-">>
          \/ StartsWith(item.text, <<"-">>)
          \/ is_sub_super
          \/ was_sub_super
          \/ should_join_items(prev_item, item)
          \/ EndsWith(built, " ")
          \/ StartsWith(item.text, <<" ">>))

AppendItemText(built, prev_item, item) ==
    IF needs_space_between(prev_item, item, built)
    THEN built \o <<" ">> \o item.text
    ELSE built \o item.text

\* TextLine::text_plain, the text of the first k items of the line.
RECURSIVE TextPlainUpTo(_, _)
TextPlainUpTo(its, k) ==
    IF k = 0 THEN <<>>
    ELSE IF k = 1 THEN its[1].text
    ELSE AppendItemText(TextPlainUpTo(its, k - 1), its[k - 1], its[k])

text_plain(line) == TextPlainUpTo(line.items, Len(line.items))

CAPTION_PREFIXES ==
    {<<"F", "i", "g", "u", "r", "e", " ">>,
     <<"F", "i", "g", "u", "r", "a", " ">>,
     <<"F", "i", "g", ".", " ">>,
     <<"F", "i", "g", " ">>,
     <<"T", "a", "b", "l", "e", " ">>,
     <<"T", "a", "b", "e", "l", "a", " ">>,
     <<"S", "o", "u", "r", "c", "e", ":">>,
     <<"F", "o", "n", "t", "e", ":">>,
     <<"S", "o", "u", "r", "c", "e", " ">>,
     <<"F", "o", "n", "t", "e", " ">>,
     <<"N", "o", "t", "e", ":">>,
     <<"N", "o", "t", "a", ":">>,
     <<"C", "h", "a", "r", "t", " ">>,
     <<"G", "r", "a-acute", "f", "i", "c", "o", " ">>,
     <<"G", "r", "a", "p", "h", " ">>,
     <<"D", "i", "a", "g", "r", "a", "m", " ">>,
     <<"I", "m", "a", "g", "e", " ">>,
     <<"I", "m", "a", "g", "e", "m", " ">>,
     <<"P", "h", "o", "t", "o", " ">>,
     <<"F", "o", "t", "o", " ">>}
CAPTION_PREFIXES_LOWERCASE ==
    {<<"f", "i", "g", "u", "r", "e", " ">>,
     <<"t", "a", "b", "l", "e", " ">>,
     <<"s", "o", "u", "r", "c", "e", ":">>}

\* char::to_lowercase on the letters met here.
ToLowercaseChar(c) ==
    IF IsUppercase(c)
    THEN CHOOSE l \in LOWERCASE : <<c, l>> \in
            {<<"A", "a">>, <<"B", "b">>, <<"C", "c">>, <<"D", "d">>, <<"E", "e">>, <<"F", "f">>,
             <<"G", "g">>, <<"H", "h">>, <<"I", "i">>, <<"J", "j">>, <<"K", "k">>, <<"L", "l">>,
             <<"M", "m">>, <<"N", "n">>, <<"O", "o">>, <<"P", "p">>, <<"Q", "q">>, <<"R", "r">>,
             <<"S", "s">>, <<"T", "t">>, <<"U", "u">>, <<"V", "v">>, <<"W", "w">>, <<"X", "x">>,
             <<"Y", "y">>, <<"Z", "z">>}
    ELSE c
ToLowercase(t) == [i \in 1..Len(t) |-> ToLowercaseChar(t[i])]

is_caption_line(text) ==
    \/ \E prefix \in CAPTION_PREFIXES : StartsWith(Trim(text), prefix)
    \/ \E prefix \in CAPTION_PREFIXES_LOWERCASE : StartsWith(ToLowercase(Trim(text)), prefix)

BULLETS == {"bullet", "-", "*", "white-circle", "black-circle", "white-bullet"}

\* The index of the first "." or ")" among the first five characters, 0 if none.
FirstDotOrParen(t) ==
    LET hits == {i \in 1..Min(5, Len(t)) : t[i] \in {".", ")"}}
    IN  IF hits = {} THEN 0 ELSE SetMin(hits)

is_list_item(text) ==
    LET trimmed == TrimStart(text)
        idx == FirstDotOrParen(trimmed)
    IN  \/ Len(trimmed) >= 2 /\ trimmed[1] \in BULLETS /\ trimmed[2] = " "
        \/ /\ \E i \in 1..Min(5, Len(trimmed)) : IsAsciiDigit(trimmed[i])
           /\ idx > 0
           /\ \A i \in 1..(idx - 1) : IsAsciiDigit(trimmed[i])
        \/ Len(trimmed) >= 2 /\ IsAsciiAlphabetic(trimmed[1]) /\ trimmed[2] \in {".", ")"}
        \/ Len(trimmed) >= 3 /\ trimmed[1] = "(" /\ trimmed[3] = ")"

format_list_item(text) ==
    LET trimmed == TrimStart(text)
    IN  IF trimmed # <<>> /\ trimmed[1] \in {"bullet", "white-circle", "black-circle", "white-bullet"}
        THEN <<"-", " ">> \o TrimStart(Tail(trimmed))
        ELSE trimmed

----------------------------------------------------------------------------
(* Font statistics, heading tiers and the two merges: markdown.rs *)

MIN_COUNTED_SIZE == 90
DEFAULT_MOST_COMMON_SIZE == 120
MAX_TIERS == 4
TIER_TOLERANCE == 5

\* line.items.first().map(|i| i.font_size).unwrap_or(default)
FirstFontSize(line, default) ==
    IF line.items = <<>> THEN default ELSE line.items[1].font_size

\* size_counts of calculate_font_stats: one count per line, by the size of
\* its first item, sizes under 9pt left out.
SizeCounts(ls) ==
    LET counted == {k \in 1..Len(ls) :
                        ls[k].items # <<>> /\ ls[k].items[1].font_size >= MIN_COUNTED_SIZE}
    IN  [s \in {ls[k].items[1].font_size : k \in counted} |->
            Cardinality({k \in counted : ls[k].items[1].font_size = s})]

\* calculate_font_stats: max_by_key over the iteration of a HashMap keeps the
\* last greatest count it meets, and the iteration order of the map changes
\* with the hasher's random keys, so every size of greatest count is a
\* possible most_common_size.  The value is the set of possible outcomes.
calculate_font_stats(ls) ==
    LET size_counts == SizeCounts(ls)
    IN  IF DOMAIN size_counts = {} THEN {DEFAULT_MOST_COMMON_SIZE}
        ELSE {s \in DOMAIN size_counts :
                \A t \in DOMAIN size_counts : size_counts[t] <= size_counts[s]}

\* The index of the first tier within 0.5pt of font_size, 0 if none.
TierOf(font_size, heading_tiers) ==
    LET hits == {i \in 1..Len(heading_tiers) :
                    Abs(font_size - heading_tiers[i]) < TIER_TOLERANCE}
    IN  IF hits = {} THEN 0 ELSE SetMin(hits)

\* Mutant: the tiers are not looked at, only the ratio thresholds.
detect_header_level_ratio_only(font_size, base_size, heading_tiers) ==
    IF font_size * 10 < base_size * 12 THEN 0
    ELSE IF font_size >= base_size * 2 THEN 1
    ELSE IF font_size * 10 >= base_size * 15 THEN 2
    ELSE IF font_size * 100 >= base_size * 125 THEN 3
    ELSE 4

\* detect_header_level: 0 is None, n is Some(n).
detect_header_level(font_size, base_size, heading_tiers) ==
    IF font_size * 10 < base_size * 12 THEN 0
    ELSE IF heading_tiers # <<>>
         THEN IF TierOf(font_size, heading_tiers) # 0 THEN TierOf(font_size, heading_tiers)
              ELSE IF font_size * 10 >= base_size * 15
                   THEN Min(Len(heading_tiers) + 1, 4)
                   ELSE 0
    ELSE IF font_size >= base_size * 2 THEN 1
    ELSE IF font_size * 10 >= base_size * 15 THEN 2
    ELSE IF font_size * 100 >= base_size * 125 THEN 3
    ELSE 4

RECURSIVE Descending(_)
Descending(S) ==
    IF S = {} THEN <<>> ELSE <<SetMax(S)>> \o Descending(S \ {SetMax(S)})

\* The clustering loop of compute_heading_tiers over sizes sorted descending.
RECURSIVE ClusterTiers(_, _)
ClusterTiers(heading_sizes, tiers) ==
    IF heading_sizes = <<>> THEN tiers
    ELSE IF \E i \in 1..Len(tiers) : Abs(tiers[i] - Head(heading_sizes)) < TIER_TOLERANCE
         THEN ClusterTiers(Tail(heading_sizes), tiers)
         ELSE ClusterTiers(Tail(heading_sizes), Append(tiers, Head(heading_sizes)))

Truncate(s, n) == SubSeq(s, 1, Min(n, Len(s)))

\* Mutant of compute_heading_tiers: the tiers are not capped.
compute_heading_tiers_uncapped(ls, base_size) ==
    LET heading_sizes ==
            {ls[k].items[1].font_size : k \in {j \in 1..Len(ls) :
                ls[j].items # <<>> /\ ls[j].items[1].font_size * 10 >= base_size * 12}}
    IN  ClusterTiers(Descending(heading_sizes), <<>>)

\* Equal sizes fall into one tier, so the sorted sizes are taken without repeats.
compute_heading_tiers(ls, base_size) ==
    LET heading_sizes ==
            {ls[k].items[1].font_size : k \in {j \in 1..Len(ls) :
                ls[j].items # <<>> /\ ls[j].items[1].font_size * 10 >= base_size * 12}}
    IN  Truncate(ClusterTiers(Descending(heading_sizes), <<>>), MAX_TIERS)

\* should_merge of merge_heading_lines, prev being the last line of the result.
HeadingShouldMerge(prev, line, base_size, heading_tiers) ==
    LET line_font == FirstFontSize(line, base_size)
        line_level == detect_header_level(line_font, base_size, heading_tiers)
        prev_level == detect_header_level(FirstFontSize(prev, base_size), base_size, heading_tiers)
        y_gap == prev.y - line.y
    IN  /\ line_level # 0
        /\ prev.page = line.page
        /\ prev_level = line_level
        /\ y_gap > 0
        /\ y_gap < line_font * 2

\* The items merge_heading_lines pushes onto the previous line: a copy of the
\* first item with " " before its text, then the others.
HeadingMergedItems(line) ==
    IF line.items = <<>> THEN <<>>
    ELSE <<[line.items[1] EXCEPT !.text = <<" ">> \o TrimStart(@)]>> \o Tail(line.items)

HeadingMergeStep(merged, line, base_size, heading_tiers) ==
    IF merged # <<>> /\ HeadingShouldMerge(merged[Len(merged)], line, base_size, heading_tiers)
    THEN [merged EXCEPT ![Len(merged)].items = @ \o HeadingMergedItems(line)]
    ELSE Append(merged, line)

\* merge_heading_lines over the first k lines.
RECURSIVE MergeHeadingLoop(_, _, _, _)
MergeHeadingLoop(ls, k, base_size, heading_tiers) ==
    IF k = 0 THEN <<>>
    ELSE HeadingMergeStep(MergeHeadingLoop(ls, k - 1, base_size, heading_tiers),
                          ls[k], base_size, heading_tiers)

merge_heading_lines(ls, base_size, heading_tiers) ==
    MergeHeadingLoop(ls, Len(ls), base_size, heading_tiers)

\* trimmed.chars().next().map(|c| c.is_lowercase()).unwrap_or(if_empty)
StartsLowercase(line, if_empty) ==
    IF Trim(text_plain(line)) = <<>> THEN if_empty
    ELSE IsLowercase(Trim(text_plain(line))[1])

is_drop_cap(line, base_size) ==
    /\ ByteLen(Trim(text_plain(line))) <= 2
    /\ FirstFontSize(line, 0) * 10 >= base_size * 25
    /\ Trim(text_plain(line)) # <<>>
    /\ IsUppercase(Trim(text_plain(line))[1])

\* target_idx of merge_drop_caps: the first earlier line of the page that
\* starts in lowercase and starts a paragraph; 0 is None.
DropCapTarget(kept, line) ==
    LET hits == {idx \in 1..Len(kept) :
                    /\ kept[idx].page = line.page
                    /\ StartsLowercase(kept[idx], FALSE)
                    /\ (idx = 1 \/ ~StartsLowercase(kept[idx - 1], TRUE))}
    IN  IF hits = {} THEN 0 ELSE SetMin(hits)

AbsorbDropCap(kept, idx, drop_char) ==
    IF idx = 0 \/ kept[idx].items = <<>> THEN kept
    ELSE [kept EXCEPT ![idx].items[1].text = <<drop_char>> \o Trim(@)]

DropCapStep(kept, line, base_size) ==
    IF is_drop_cap(line, base_size)
    THEN AbsorbDropCap(kept, DropCapTarget(kept, line), Trim(text_plain(line))[1])
    ELSE Append(kept, line)

\* merge_drop_caps over the first k lines.
RECURSIVE MergeDropCapsLoop(_, _, _)
MergeDropCapsLoop(ls, k, base_size) ==
    IF k = 0 THEN <<>>
    ELSE DropCapStep(MergeDropCapsLoop(ls, k - 1, base_size), ls[k], base_size)

merge_drop_caps(ls, base_size) == MergeDropCapsLoop(ls, Len(ls), base_size)

\* Insertion into an ascending sequence of numbers.
RECURSIVE InsertAscending(_, _)
InsertAscending(s, e) ==
    IF s = <<>> THEN <<e>>
    ELSE IF e < Head(s) THEN <<e>> \o s
    ELSE <<Head(s)>> \o InsertAscending(Tail(s), e)

RECURSIVE SortAscending(_)
SortAscending(s) ==
    IF s = <<>> THEN <<>>
    ELSE InsertAscending(SortAscending(SubSeq(s, 1, Len(s) - 1)), s[Len(s)])

\* The gaps collected by compute_paragraph_threshold among the first k lines.
RECURSIVE LineGaps(_, _, _)
LineGaps(ls, k, base_size) ==
    IF k <= 1 THEN <<>>
    ELSE IF /\ ls[k].page = ls[k - 1].page
            /\ ls[k - 1].y - ls[k].y > 0
            /\ ls[k - 1].y - ls[k].y < base_size * 10
         THEN Append(LineGaps(ls, k - 1, base_size), ls[k - 1].y - ls[k].y)
         ELSE LineGaps(ls, k - 1, base_size)

MIN_GAPS == 5

ThresholdOfGaps(gaps, base_size) ==
    IF Len(gaps) < MIN_GAPS THEN base_size * 18
    ELSE Max(SortAscending(gaps)[(Len(gaps) \div 2) + 1] * 13, base_size * 15)

\* compute_paragraph_threshold, times ten.
compute_paragraph_threshold(ls, base_size) ==
    ThresholdOfGaps(LineGaps(ls, Len(ls), base_size), base_size)

----------------------------------------------------------------------------
(* to_markdown_from_lines and clean_markdown: markdown.rs *)

\* f32::MAX, the prev_y before the first line of a page: above every Y.
PREV_Y_MAX == 100000000
MAX_HEADER_WORDS == 15
LIST_X_BEFORE == 50
LIST_X_AFTER == 500

NL == "\n"

MarkdownOptions(detect_headers, detect_lists, base_font_size) ==
    [detect_headers |-> detect_headers, detect_lists |-> detect_lists,
     base_font_size |-> base_font_size]

\* split_whitespace().count()
WordCount(t) ==
    Cardinality({i \in 1..Len(t) :
        ~IsWhitespace(t[i]) /\ (i = 1 \/ IsWhitespace(t[i - 1]))})

RECURSIVE Repeat(_, _)
Repeat(c, n) == IF n = 0 THEN <<>> ELSE <<c>> \o Repeat(c, n - 1)

\* The locals of the loop of to_markdown_from_lines.
EmitState ==
    [output |-> <<>>, current_page |-> 0, prev_y |-> PREV_Y_MAX, y_gap |-> 0,
     in_list |-> FALSE, in_paragraph |-> FALSE, last_list_x |-> None]

\* if in_paragraph { output.push_str("\n\n"); in_paragraph = false; }
CloseParagraph(st) ==
    IF st.in_paragraph
    THEN [st EXCEPT !.output = @ \o <<NL, NL>>, !.in_paragraph = FALSE]
    ELSE st

PageBreak(st, line) ==
    IF line.page = st.current_page THEN st
    ELSE IF st.current_page > 0
         THEN [CloseParagraph(st) EXCEPT !.output = @ \o <<NL, NL>>,
                                        !.current_page = line.page,
                                        !.prev_y = PREV_Y_MAX,
                                        !.in_list = FALSE,
                                        !.last_list_x = None]
         ELSE [st EXCEPT !.current_page = line.page,
                         !.prev_y = PREV_Y_MAX,
                         !.in_list = FALSE,
                         !.last_list_x = None]

\* para_threshold is ten times the threshold in tenths of a point.
ParagraphBreak(st, line, para_threshold) ==
    IF (st.prev_y - line.y) * 10 > para_threshold
    THEN [CloseParagraph(st) EXCEPT !.y_gap = st.prev_y - line.y, !.prev_y = line.y]
    ELSE [st EXCEPT !.y_gap = st.prev_y - line.y, !.prev_y = line.y]

EmitCaption(st, trimmed) ==
    [CloseParagraph(st) EXCEPT !.output = @ \o trimmed \o <<NL, NL>>]

EmitHeader(st, header_level, plain_trimmed) ==
    [CloseParagraph(st) EXCEPT
        !.output = @ \o Repeat("#", header_level) \o <<" ">> \o plain_trimmed \o <<NL, NL>>,
        !.in_list = FALSE]

EmitListItem(st, line, trimmed) ==
    [CloseParagraph(st) EXCEPT
        !.output = @ \o format_list_item(trimmed) \o <<NL>>,
        !.in_list = TRUE,
        !.last_list_x = IF line.items = <<>> THEN None ELSE Some(line.items[1].x)]

is_continuation(st, line, plain_trimmed, base_size) ==
    /\ st.last_list_x.some
    /\ line.items # <<>>
    /\ line.items[1].x >= st.last_list_x.val - LIST_X_BEFORE
    /\ line.items[1].x <= st.last_list_x.val + LIST_X_AFTER
    /\ st.y_gap < base_size * 7
    /\ ~is_list_item(plain_trimmed)

EmitContinuation(st, trimmed) ==
    [st EXCEPT !.output =
        (IF EndsWith(@, NL) THEN SubSeq(@, 1, Len(@) - 1) \o <<" ">> ELSE @)
            \o trimmed \o <<NL>>]

\* The end of the list when the line does not continue it, then regular text.
EmitRegular(st, trimmed) ==
    [st EXCEPT !.output = (IF st.in_paragraph THEN @ \o <<" ">> ELSE @) \o trimmed,
               !.in_paragraph = TRUE,
               !.in_list = FALSE,
               !.last_list_x = IF st.in_list THEN None ELSE @]

\* Mutant of IsHeaderCandidate: at least four words instead of more than
\* three bytes.
IsHeaderCandidate_four_words(opts, plain_trimmed) ==
    /\ opts.detect_headers
    /\ WordCount(plain_trimmed) >= 4
    /\ WordCount(plain_trimmed) <= MAX_HEADER_WORDS

IsHeaderCandidate(opts, plain_trimmed) ==
    /\ opts.detect_headers
    /\ ByteLen(plain_trimmed) > 3
    /\ WordCount(plain_trimmed) <= MAX_HEADER_WORDS

\* The body of the loop from the text of the line on; without bold and
\* italic detection trimmed and plain_trimmed are the same text.
EmitText(st, line, trimmed, opts, base_size, heading_tiers) ==
    IF trimmed = <<>> THEN st
    ELSE IF is_caption_line(trimmed) THEN EmitCaption(st, trimmed)
    ELSE IF /\ IsHeaderCandidate(opts, trimmed)
            /\ detect_header_level(FirstFontSize(line, base_size), base_size, heading_tiers) # 0
         THEN EmitHeader(st,
                detect_header_level(FirstFontSize(line, base_size), base_size, heading_tiers),
                trimmed)
    ELSE IF opts.detect_lists /\ is_list_item(trimmed) THEN EmitListItem(st, line, trimmed)
    ELSE IF st.in_list /\ is_continuation(st, line, trimmed, base_size)
         THEN EmitContinuation(st, trimmed)
    ELSE EmitRegular(st, trimmed)

EmitLine(st, line, opts, base_size, heading_tiers, para_threshold) ==
    EmitText(ParagraphBreak(PageBreak(st, line), line, para_threshold),
             line, Trim(text_plain(line)), opts, base_size, heading_tiers)

\* The loop over the first k lines.
RECURSIVE EmitLoop(_, _, _, _, _, _)
EmitLoop(ls, k, opts, base_size, heading_tiers, para_threshold) ==
    IF k = 0 THEN EmitState
    ELSE EmitLine(EmitLoop(ls, k - 1, opts, base_size, heading_tiers, para_threshold),
                  ls[k], opts, base_size, heading_tiers, para_threshold)

\* if in_paragraph { output.push('\n'); }
CloseFinalParagraph(st) ==
    IF st.in_paragraph THEN st.output \o <<NL>> ELSE st.output

TripleNewlineAt(t, i) == t[i] = NL /\ t[i + 1] = NL /\ t[i + 2] = NL

ContainsTripleNewline(t) == \E i \in 1..(Len(t) - 2) : TripleNewlineAt(t, i)

\* text.replace("\n\n\n", "\n\n"): matches from the left, without overlap.
RECURSIVE ReplaceTripleNewline(_)
ReplaceTripleNewline(t) ==
    IF ~ContainsTripleNewline(t) THEN t
    ELSE LET first == CHOOSE i \in 1..(Len(t) - 2) :
                         /\ TripleNewlineAt(t, i)
                         /\ \A j \in 1..(i - 1) : ~TripleNewlineAt(t, j)
         IN  SubSeq(t, 1, first - 1) \o <<NL, NL>>
                \o ReplaceTripleNewline(SubSeq(t, first + 3, Len(t)))

RECURSIVE CollapseNewlines(_)
CollapseNewlines(t) ==
    IF ContainsTripleNewline(t) THEN CollapseNewlines(ReplaceTripleNewline(t)) ELSE t

\* clean_markdown with fix_hyphenation, remove_page_numbers and format_urls off.
clean_markdown(t) == Trim(CollapseNewlines(t)) \o <<NL>>

\* One run of the emitter: the lines after the merges, and the Markdown.
EmitMerged(ls, opts, base_size, heading_tiers) ==
    [lines |-> ls,
     output |-> clean_markdown(CloseFinalParagraph(
        EmitLoop(ls, Len(ls), opts, base_size, heading_tiers,
                 compute_paragraph_threshold(ls, base_size))))]

EmitWithTiers(ls, opts, base_size, heading_tiers) ==
    EmitMerged(merge_heading_lines(ls, base_size, heading_tiers), opts, base_size, heading_tiers)

EmitWithBase(ls, opts, base_size) ==
    EmitWithTiers(ls, opts, base_size, compute_heading_tiers(ls, base_size))

\* to_markdown_from_lines, most_common_size being the size the font
\* statistics came to in this run.
to_markdown_from_lines(ls, opts, most_common_size) ==
    IF ls = <<>> THEN [lines |-> <<>>, output |-> <<>>]
    ELSE EmitWithBase(merge_drop_caps(ls, UnwrapOr(opts.base_font_size, most_common_size)),
                      opts, UnwrapOr(opts.base_font_size, most_common_size))

----------------------------------------------------------------------------
(* The emitter run on the lines of small documents *)

MaxEmitItems == 4
MaxRuns == 2

\* A two-item heading and its wrapped second line 30pt below, two body lines
\* in 10pt and 12pt, a 36pt drop cap under them, a bullet and the line after
\* it, a caption, and a line of the next page.
EmitPool ==
    <<TextItem(<<"H", "e", "a", "d">>, 1000, 7000, 0, 240, 1),
      TextItem(<<"l", "i", "n", "e">>, 1600, 7000, 0, 240, 1),
      TextItem(<<"M", "o", "r", "e">>, 1000, 6700, 0, 240, 1),
      TextItem(<<"b", "o", "d", "y">>, 1000, 6400, 0, 100, 1),
      TextItem(<<"t", "e", "x", "t">>, 1000, 6200, 0, 120, 1),
      TextItem(<<"T">>, 900, 6100, 0, 360, 1),
      TextItem(<<"bullet", " ", "i", "t">>, 1000, 5900, 0, 100, 1),
      TextItem(<<"o", "n">>, 1100, 5780, 0, 100, 1),
      TextItem(<<"N", "o", "t", "e", ":", " ", "x">>, 1000, 5500, 0, 100, 1),
      TextItem(<<"n", "e", "x", "t">>, 1000, 7000, 0, 100, 2)>>

\* Six body lines 14pt apart, enough gaps for a median line spacing.
ParagraphBase ==
    [k \in 1..6 |-> TextItem(<<"p", "a", "r", "a">>, 1000, 4000 - 140 * k, 0, 100, 1)]

PickFrom(pool, S) == [k \in 1..Cardinality(S) |-> pool[Ascending(S)[k]]]

EmitItemInputs ==
    {PickFrom(EmitPool, S) \o base :
        S \in {T \in SUBSET (1..Len(EmitPool)) : Cardinality(T) <= MaxEmitItems},
        base \in {<<>>, ParagraphBase}}

OptionInputs ==
    {MarkdownOptions(h, l, b) : h \in BOOLEAN, l \in BOOLEAN, b \in {None, Some(120)}}

EmitInit ==
    /\ em_lines \in {group_into_lines(its) : its \in EmitItemInputs}
    /\ em_options \in OptionInputs
    /\ runs = <<>>
    /\ LayoutIdle
    /\ DecodeIdle
    /\ InterpIdle
    /\ CallIdle

\* One call of to_markdown_from_lines on the same lines and options.
ToMarkdownFromLines ==
    /\ Len(runs) < MaxRuns
    /\ \E most_common_size \in calculate_font_stats(em_lines) :
            runs' = Append(runs, to_markdown_from_lines(em_lines, em_options, most_common_size))
    /\ UNCHANGED <<em_lines, em_options, layoutVars, decodeVars, interpVars, callVars>>

EmitNext == ToMarkdownFromLines

SpecEmit == EmitInit /\ [][EmitNext]_vars

----------------------------------------------------------------------------
(* Claims about the emitter *)

\* C2: after merge_drop_caps and merge_heading_lines every TextLine still has
\* its items sorted by x ascending.  The lines given to the emitter are sorted
\* (they come from group_into_lines); the lines of a run are the merged ones.
C2_MergedLinesSorted ==
    \A r \in 1..Len(runs) : \A k \in 1..Len(runs[r].lines) :
        SortedByX(runs[r].lines[k].items)

\* C3: two calls of to_markdown_from_lines on the same lines and options
\* return the same Markdown, also when two font sizes are equally frequent.
C3_EmitterDeterministic ==
    \A r \in 1..Len(runs) : \A q \in 1..Len(runs) : runs[r].output = runs[q].output

----------------------------------------------------------------------------
(* detect_header_level called on the tiers of small documents *)

MaxHeadingLines == 5

\* Sizes in whole and half points, where the f32 ratios and the exact ones
\* fall on the same side of every threshold.
HeaderSizePool == {100, 120, 140, 145, 150, 180, 240, 300, 360}
HeaderBases == {100, 120}

\* One line per size, each of one item.
LinesOfSizes(S) ==
    [k \in 1..Cardinality(S) |->
        TextLine(<<TextItem(Word, 1000, 8000 - 400 * k, 0, Descending(S)[k], 1)>>,
                 8000 - 400 * k, 1)]

\* The tiers compute_heading_tiers gives for documents of up to
\* MaxHeadingLines lines.
HeadingTierInputs(base_size) ==
    {compute_heading_tiers(LinesOfSizes(S), base_size) :
        S \in {T \in SUBSET HeaderSizePool : Cardinality(T) <= MaxHeadingLines}}

HeaderInit ==
    /\ \E base_size \in HeaderBases :
        call \in {[fn |-> "detect_header_level", font_size |-> s,
                   base_size |-> base_size, heading_tiers |-> t] :
                        s \in HeaderSizePool, t \in HeadingTierInputs(base_size)}
    /\ ret = NotReturned
    /\ LayoutIdle
    /\ DecodeIdle
    /\ InterpIdle
    /\ EmitIdle

DetectHeaderLevel ==
    /\ call.fn = "detect_header_level"
    /\ ~ret.done
    /\ ret' = Returned(detect_header_level(call.font_size, call.base_size, call.heading_tiers))
    /\ UNCHANGED <<call, layoutVars, decodeVars, interpVars, emitVars>>

HeaderNext == DetectHeaderLevel

SpecHeader == HeaderInit /\ [][HeaderNext]_vars

HeaderReturned == call.fn = "detect_header_level" /\ ret.done

\* C11: a size under 1.2 times the body size is no heading; otherwise, with
\* tiers, a size within 0.5pt of a tier gets the level of the first such tier
\* and no level is above 4; without tiers the ratios 2.0, 1.5, 1.25 and 1.2
\* give levels 1 to 4.  Body 12 with tiers 24, 18, 15 gives 1, 2, 3 and none
\* for 24, 18, 15 and 12; tier 15 alone gives 1 for 15 and none for 14.
C11_HeaderLevel ==
    HeaderReturned =>
        LET size == call.font_size
            body == call.base_size
            tiers == call.heading_tiers
            level == ret.val
            near == {i \in 1..Len(tiers) : Abs(size - tiers[i]) < 5}
        IN  /\ size * 10 < body * 12 => level = 0
            /\ (size * 10 >= body * 12 /\ near # {}) =>
                    /\ level \in near
                    /\ \A i \in near : level <= i
            /\ level <= 4
            /\ (size * 10 >= body * 12 /\ tiers = <<>>) =>
                    /\ level = 1 <=> size >= 2 * body
                    /\ level = 2 <=> (size < 2 * body /\ 2 * size >= 3 * body)
                    /\ level = 3 <=> (2 * size < 3 * body /\ 4 * size >= 5 * body)
                    /\ level = 4 <=> 4 * size < 5 * body
            /\ (body = 120 /\ tiers = <<240, 180, 150>>) =>
                    /\ size = 240 => level = 1
                    /\ size = 180 => level = 2
                    /\ size = 150 => level = 3
                    /\ size = 120 => level = 0
            /\ (body = 120 /\ tiers = <<150>>) =>
                    /\ size = 150 => level = 1
                    /\ size = 140 => level = 0

\* The third tier of the example is met.
C11_Witness ==
    /\ HeaderReturned
    /\ call.base_size = 120
    /\ call.heading_tiers = <<240, 180, 150>>
    /\ call.font_size = 150
    /\ ret.val = 3

----------------------------------------------------------------------------
(* Table detection: tables.rs.  Cluster centres are averages; they are kept *)
(* as exact fractions n/d of tenths of a point, d > 0.                       *)

Rat(n, d) == [n |-> n, d |-> d]
RatOfInt(i) == Rat(i, 1)
RatLess(a, b) == a.n * b.d < b.n * a.d
RatSub(a, b) == Rat(a.n * b.d - b.n * a.d, a.d * b.d)
RatAbs(a) == Rat(Abs(a.n), a.d)
RatHalf(a) == Rat(a.n, 2 * a.d)
RatMin(a, b) == IF RatLess(b, a) THEN b ELSE a

\* f32::clamp(lo, hi) with whole bounds.
RatClamp(a, lo, hi) ==
    IF RatLess(a, RatOfInt(lo)) THEN RatOfInt(lo)
    ELSE IF RatLess(RatOfInt(hi), a) THEN RatOfInt(hi)
    ELSE a

\* (v - centre).abs() of a coordinate and a cluster centre.
Distance(v, centre) == RatAbs(RatSub(RatOfInt(v), centre))

SmallFont == "SmallFont"
BodyFont == "BodyFont"

Table(columns, rows, cells, item_indices) ==
    [columns |-> columns, rows |-> rows, cells |-> cells, item_indices |-> item_indices]

\* items.iter().enumerate(): each item with its index, from 0.
Enumerate(its) == [k \in 1..Len(its) |-> [idx |-> k - 1, item |-> its[k]]]

XsOf(cands) == [k \in 1..Len(cands) |-> cands[k].item.x]
YsOf(cands) == [k \in 1..Len(cands) |-> cands[k].item.y]

Reverse(s) == [k \in 1..Len(s) |-> s[Len(s) + 1 - k]]

\* One position met by the clustering loop: it opens a new cluster when it
\* is more than the threshold past the centre of the open one.
ClusterStep(cl, v, cluster_threshold, sign) ==
    IF RatLess(cluster_threshold, Rat(sign * (v * cl.count - cl.sum), cl.count))
    THEN [centres |-> Append(cl.centres, Rat(cl.sum, cl.count)), sum |-> v, count |-> 1]
    ELSE [centres |-> cl.centres, sum |-> cl.sum + v, count |-> cl.count + 1]

\* Don't forget last cluster.
CloseCluster(cl) == Append(cl.centres, Rat(cl.sum, cl.count))

\* The clustering loop of find_column_boundaries and find_row_boundaries over
\* the first k sorted positions: the centres closed so far and the sum and
\* count of the open cluster.  sign is 1 for ascending X, -1 for descending Y.
RECURSIVE ClusterLoop(_, _, _, _)
ClusterLoop(positions, k, cluster_threshold, sign) ==
    IF k = 1 THEN [centres |-> <<>>, sum |-> positions[1], count |-> 1]
    ELSE ClusterStep(ClusterLoop(positions, k - 1, cluster_threshold, sign),
                     positions[k], cluster_threshold, sign)

ClusterCentres(positions, cluster_threshold, sign) ==
    IF positions = <<>> THEN <<>>
    ELSE CloseCluster(ClusterLoop(positions, Len(positions), cluster_threshold, sign))

\* How many candidates lie within the threshold of the column.
CountNear(cands, col_x, cluster_threshold) ==
    Cardinality({k \in 1..Len(cands) :
        RatLess(Distance(cands[k].item.x, col_x), cluster_threshold)})

\* avg_gap.clamp(25.0, 50.0) of find_column_boundaries.
ColumnClusterThreshold(x_positions) ==
    IF Len(x_positions) > 1
    THEN RatClamp(Rat(x_positions[Len(x_positions)] - x_positions[1], Len(x_positions) - 1),
                  250, 500)
    ELSE RatOfInt(500)

\* The columns with enough items, then the anti-paragraph safeguard.
FilterColumns(cands, columns, cluster_threshold, mode) ==
    LET min_items_per_col == Max((Len(cands) \div Max(Len(columns), 1)) \div 4, 2)
        kept == Filter(columns, {c \in {columns[j] : j \in 1..Len(columns)} :
                    CountNear(cands, c, cluster_threshold) >= min_items_per_col})
    IN  IF mode = BodyFont
           /\ \E k \in 1..Len(kept) :
                CountNear(cands, kept[k], cluster_threshold) * 10 > Len(cands) * 6
        THEN <<>>
        ELSE kept

find_column_boundaries(cands, mode) ==
    IF cands = <<>> THEN <<>>
    ELSE FilterColumns(cands,
            ClusterCentres(SortAscending(XsOf(cands)),
                           ColumnClusterThreshold(SortAscending(XsOf(cands))), 1),
            ColumnClusterThreshold(SortAscending(XsOf(cands))), mode)

ROW_CLUSTER_THRESHOLD == 100

find_row_boundaries(cands) ==
    ClusterCentres(Reverse(SortAscending(YsOf(cands))), RatOfInt(ROW_CLUSTER_THRESHOLD), -1)

\* min_by on the distance: the first of the nearest centres; 0 if there is none.
NearestIndex(centres, v) ==
    IF centres = <<>> THEN 0
    ELSE SetMin({i \in 1..Len(centres) :
            \A j \in 1..Len(centres) :
                ~RatLess(Distance(v, centres[j]), Distance(v, centres[i]))})

\* The fold of f32::min over the gaps of adjacent columns.
MinGap(columns) ==
    LET gaps == {RatAbs(RatSub(columns[k], columns[k - 1])) : k \in 2..Len(columns)}
    IN  CHOOSE g \in gaps : \A h \in gaps : ~RatLess(h, g)

ColumnIndexThreshold(columns) ==
    IF Len(columns) >= 2 THEN RatClamp(RatHalf(MinGap(columns)), 250, 500)
    ELSE RatOfInt(500)

\* find_column_index and find_row_index: 0 is None, n is Some(n - 1).
find_column_index(columns, x) ==
    IF NearestIndex(columns, x) # 0
       /\ RatLess(Distance(x, columns[NearestIndex(columns, x)]), ColumnIndexThreshold(columns))
    THEN NearestIndex(columns, x)
    ELSE 0

ROW_INDEX_THRESHOLD == 150

find_row_index(rows, y) ==
    IF NearestIndex(rows, y) # 0
       /\ RatLess(Distance(y, rows[NearestIndex(rows, y)]), RatOfInt(ROW_INDEX_THRESHOLD))
    THEN NearestIndex(rows, y)
    ELSE 0

\* check_column_alignment: the count of aligned items; the caller divides it
\* by the number of items.
AlignedCount(cands, columns, mode) ==
    Cardinality({k \in 1..Len(cands) :
        \E j \in 1..Len(columns) :
            RatLess(Distance(cands[k].item.x, columns[j]),
                    RatOfInt(IF mode = SmallFont THEN 400 ELSE 300))})

----------------------------------------------------------------------------
(* Cells and their validation: tables.rs *)

\* One item met by join_cell_items, built being the text joined so far and
\* prev_item the item before it in the cell.
JoinCellStep(built, prev_item, item) ==
    IF Trim(item.text) = <<>> THEN built
    ELSE IF built = <<>> THEN Trim(item.text)
    ELSE IF \/ EndsWith(built, "-")
            \/ Trim(item.text) = <<"-">>
            \/ StartsWith(Trim(item.text), <<"-">>)
            \/ (item.font_size * 100 < prev_item.font_size * 85 /\ Abs(item.y - prev_item.y) > 10)
            \/ (prev_item.font_size * 100 < item.font_size * 85 /\ Abs(item.y - prev_item.y) > 10)
         THEN built \o Trim(item.text)
    ELSE built \o <<" ">> \o Trim(item.text)

RECURSIVE JoinCellLoop(_, _)
JoinCellLoop(its, k) ==
    IF k = 0 THEN <<>>
    ELSE JoinCellStep(JoinCellLoop(its, k - 1), its[IF k = 1 THEN 1 ELSE k - 1], its[k])

join_cell_items(its) == JoinCellLoop(its, Len(its))

\* The candidates that fall into a column and a row, with both indices.
PlacedCands(cands, columns, rows) ==
    LET at == [k \in 1..Len(cands) |->
                    [col |-> find_column_index(columns, cands[k].item.x),
                     row |-> find_row_index(rows, cands[k].item.y),
                     idx |-> cands[k].idx,
                     item |-> cands[k].item]]
    IN  Filter(at, {at[k] : k \in {j \in 1..Len(cands) : at[j].col # 0 /\ at[j].row # 0}})

\* cell_items[row][col], the items in the order of the candidates.
CellItems(placed, num_rows, num_cols) ==
    [r \in 1..num_rows |-> [c \in 1..num_cols |->
        LET here == Filter(placed, {placed[k] : k \in {j \in 1..Len(placed) :
                                        placed[j].row = r /\ placed[j].col = c}})
        IN  [k \in 1..Len(here) |-> here[k].item]]]

JoinCells(cell_items) ==
    [r \in 1..Len(cell_items) |-> [c \in 1..Len(cell_items[r]) |->
        join_cell_items(cell_items[r][c])]]

\* col_items.sort_by(x), then join_cell_items.
JoinSortedCells(cell_items) ==
    [r \in 1..Len(cell_items) |-> [c \in 1..Len(cell_items[r]) |->
        join_cell_items(StableSort(cell_items[r][c], "x"))]]

FilledCount(row) == Cardinality({c \in 1..Len(row) : row[c] # <<>>})
FilledTrimmedCount(row) == Cardinality({c \in 1..Len(row) : Trim(row[c]) # <<>>})

looks_like_number(s) ==
    /\ Trim(s) # <<>>
    /\ \A i \in 1..Len(Trim(s)) :
            IsAsciiDigit(Trim(s)[i]) \/ Trim(s)[i] \in {".", ",", "-", "+"}
    /\ \E i \in 1..Len(Trim(s)) : IsAsciiDigit(Trim(s)[i])

HasDigit(s) == \E i \in 1..Len(s) : IsAsciiDigit(s[i])
HasChar(s, c) == \E i \in 1..Len(s) : s[i] = c

\* looks_like_table_data on a trimmed, non-empty text; "degree" and "micro"
\* stand for U+00B0 and U+00B5.
looks_like_table_data(s) ==
    /\ s # <<>>
    /\ \/ looks_like_number(s)
       \/ /\ ByteLen(s) <= 10
          /\ \A i \in 1..Len(s) : IsAlphanumeric(s[i])
          /\ HasDigit(s)
       \/ /\ HasDigit(s)
          /\ \/ HasChar(s, "degree") \/ HasChar(s, "V") \/ HasChar(s, "A")
             \/ Contains(s, <<"H", "z">>) \/ Contains(s, <<"m", "A">>)
             \/ HasChar(s, "micro") \/ Contains(s, <<"p", "i", "n">>)
       \/ HasChar(s, "(") /\ HasChar(s, ")") /\ HasDigit(s)
       \/ /\ Contains(s, <<"degree", "C">>) \/ Contains(s, <<"degree", "F">>)
          /\ Contains(s, <<"t", "o">>)

LabelLike(first) ==
    \/ EndsWith(first, ":")
    \/ /\ ByteLen(first) > 3
       /\ \A i \in 1..Len(first) :
            IsUppercase(first[i]) \/ IsWhitespace(first[i]) \/ first[i] \in {"(", ")"}

is_key_value_layout(cells) ==
    /\ cells # <<>>
    /\ Cardinality({r \in 1..Len(cells) : FilledCount(cells[r]) <= 2}) * 10 > Len(cells) * 7
    /\ Cardinality({r \in 1..Len(cells) :
            LabelLike(IF cells[r] = <<>> THEN <<>> ELSE Trim(cells[r][1]))}) * 2 > Len(cells)
    /\ Len(cells[1]) <= 6

\* count_freq of has_consistent_columns: how many rows have each filled count.
CountFreq(cells) ==
    [n \in {FilledCount(cells[r]) : r \in 1..Len(cells)} |->
        Cardinality({r \in 1..Len(cells) : FilledCount(cells[r]) = n})]

\* The counts max_by_key can return: the iteration order of the HashMap
\* decides among the counts of greatest frequency.
MostCommonCounts(cells) ==
    {n \in DOMAIN CountFreq(cells) :
        \A m \in DOMAIN CountFreq(cells) : CountFreq(cells)[m] <= CountFreq(cells)[n]}

\* has_consistent_columns when max_by_key returned most_common_count.
ConsistentWith(cells, most_common_count) ==
    Cardinality({r \in 1..Len(cells) :
        /\ FilledCount(cells[r]) >= Max(most_common_count - 2, 0)
        /\ FilledCount(cells[r]) <= most_common_count + 2}) * 10 > Len(cells) * 4

\* has_consistent_columns: the set of the values it can return.
has_consistent_columns(cells) ==
    IF Len(cells) < 3 THEN {TRUE}
    ELSE {ConsistentWith(cells, n) : n \in MostCommonCounts(cells)}

\* The non-empty trimmed cells after the header row.
DataCells(cells) ==
    {<<r, c>> \in (2..Len(cells)) \X (1..Len(cells[1])) : Trim(cells[r][c]) # <<>>}

has_table_like_content(cells, mode) ==
    /\ DataCells(cells) # {}
    /\ \/ Cardinality({p \in DataCells(cells) : looks_like_table_data(Trim(cells[p[1]][p[2]]))})
            * 10 > Cardinality(DataCells(cells)) * (IF mode = SmallFont THEN 2 ELSE 3)
       \/ mode = SmallFont /\ Len(cells[1]) >= 5

DotCount(s) == Cardinality({i \in 1..Len(s) : s[i] = "."})
WithoutWhitespace(s) == Filter(s, {s[i] : i \in {j \in 1..Len(s) : ~IsWhitespace(s[j])}})

IsDotCell(s) == DotCount(s) > ByteLen(s) \div 2 /\ DotCount(s) >= 3

IsPageNumberCell(s) ==
    /\ WithoutWhitespace(s) # <<>>
    /\ ByteLen(WithoutWhitespace(s)) <= 4
    /\ \A i \in 1..Len(WithoutWhitespace(s)) : IsAsciiDigit(WithoutWhitespace(s)[i])

AllCells(cells) ==
    {<<r, c>> \in (1..Len(cells)) \X (1..Len(cells[1])) : Trim(cells[r][c]) # <<>>}

\* dot_ratio > 0.15 || (dot_ratio > 0.05 && page_num_ratio > 0.15)
is_table_of_contents(cells) ==
    /\ cells # <<>>
    /\ AllCells(cells) # {}
    /\ LET dot_cells == Cardinality({p \in AllCells(cells) : IsDotCell(Trim(cells[p[1]][p[2]]))})
           page_number_cells ==
                Cardinality({p \in AllCells(cells) : IsPageNumberCell(Trim(cells[p[1]][p[2]]))})
           total_cells == Cardinality(AllCells(cells))
       IN  \/ dot_cells * 100 > total_cells * 15
           \/ dot_cells * 100 > total_cells * 5 /\ page_number_cells * 100 > total_cells * 15

----------------------------------------------------------------------------
(* detect_table_in_region and detect_tables: tables.rs *)

HasFormPattern(c) ==
    \/ EndsWith(Trim(c), ":") /\ ByteLen(Trim(c)) > 1
    \/ Contains(Trim(c), <<":", " ">>) /\ ~looks_like_number(Trim(c))

RowHasFormPatterns(row) == \E c \in 1..Len(row) : Trim(row[c]) # <<>> /\ HasFormPattern(row[c])

NumericCount(row) ==
    Cardinality({c \in 1..Len(row) : Trim(row[c]) # <<>> /\ looks_like_number(Trim(row[c]))})

\* next_has_form looks at every cell of the next row, the empty ones too.
NextHasForm(row) == \E c \in 1..Len(row) : HasFormPattern(row[c])
NextNumericCount(row) == Cardinality({c \in 1..Len(row) : looks_like_number(Trim(row[c]))})

\* Whether the loop of find_first_table_row breaks at row r.
StartsTable(cells, r) ==
    /\ ~RowHasFormPatterns(cells[r])
    /\ \/ NumericCount(cells[r]) >= 2
       \/ FilledTrimmedCount(cells[r]) * 10 >= Len(cells[1]) * 4
       \/ /\ FilledTrimmedCount(cells[r]) * 10 >= Len(cells[1]) * 3
          /\ r + 1 <= Len(cells)
          /\ \/ FilledTrimmedCount(cells[r + 1]) * 10 >= Len(cells[1]) * 4
             \/ NextNumericCount(cells[r + 1]) >= 2
          /\ ~NextHasForm(cells[r + 1])

\* first_table_row of find_first_table_row: the number of leading rows left out.
FirstTableRow(cells) ==
    IF {r \in 1..Len(cells) : StartsTable(cells, r)} = {} THEN 0
    ELSE SetMin({r \in 1..Len(cells) : StartsTable(cells, r)}) - 1

EXCLUDED_Y_TOLERANCE == 150

\* excluded_items of find_first_table_row.
ExcludedItems(cands, rows, first_table_row) ==
    {cands[k].idx : k \in {j \in 1..Len(cands) :
        \E r \in 1..first_table_row :
            RatLess(Distance(cands[j].item.y, rows[r]), RatOfInt(EXCLUDED_Y_TOLERANCE))}}

IndicesOf(placed, excluded) ==
    LET kept == Filter(placed, {placed[k] : k \in {j \in 1..Len(placed) :
                                    placed[j].idx \notin excluded}})
    IN  [k \in 1..Len(kept) |-> kept[k].idx]

DropRows(s, n) == SubSeq(s, n + 1, Len(s))

\* The validations 1 to 8 of detect_table_in_region on the final grid,
\* consistent being what has_consistent_columns returned.
ValidTable(rows, cells, mode, consistent) ==
    /\ Cardinality({r \in 1..Len(cells) : cells[r][1] # <<>>}) >= Len(rows) \div 2
    /\ Cardinality({r \in 1..Len(cells) : FilledCount(cells[r]) >= 2})
            >= Max(Len(rows) \div (IF mode = SmallFont THEN 3 ELSE 2), 1)
    /\ Len(rows) <= (IF mode = SmallFont THEN 50 ELSE 100)
    /\ SumTo([r \in 1..Len(cells) |-> FilledCount(cells[r])], Len(cells)) * 2
            >= Len(rows) * (IF mode = SmallFont THEN 3 ELSE 5)
    /\ ~is_key_value_layout(cells)
    /\ consistent
    /\ has_table_like_content(cells, mode)
    /\ ~is_table_of_contents(cells)

\* The end of detect_table_in_region on the grid without its leading rows.
ValidatedTable(columns, rows, cells, item_indices, mode) ==
    {IF ValidTable(rows, cells, mode, consistent)
     THEN Some(Table(columns, rows, cells, item_indices))
     ELSE None : consistent \in has_consistent_columns(cells)}

BuildTable(cands, columns, rows, placed, first_table_row, mode) ==
    ValidatedTable(columns,
        DropRows(rows, first_table_row),
        JoinSortedCells(DropRows(CellItems(placed, Len(rows), Len(columns)), first_table_row)),
        IndicesOf(placed, ExcludedItems(cands, rows, first_table_row)),
        mode)

PlaceInGrid(cands, columns, rows, placed, mode) ==
    BuildTable(cands, columns, rows, placed,
        FirstTableRow(JoinCells(CellItems(placed, Len(rows), Len(columns)))), mode)

TableInGrid(cands, columns, rows, mode) ==
    IF \/ Len(columns) < (IF mode = SmallFont THEN 2 ELSE 3)
       \/ Len(columns) > 15
       \/ Len(rows) < (IF mode = SmallFont THEN 2 ELSE 3)
       \/ AlignedCount(cands, columns, mode) * 10
            < Len(cands) * (IF mode = SmallFont THEN 5 ELSE 7)
    THEN {None}
    ELSE PlaceInGrid(cands, columns, rows, PlacedCands(cands, columns, rows), mode)

\* detect_table_in_region: the set of what it can return, None or one table;
\* two values when the HashMap of has_consistent_columns decides.
detect_table_in_region(cands, mode) ==
    TableInGrid(cands, find_column_boundaries(cands, mode), find_row_boundaries(cands), mode)

REGION_GAP == 300
REGION_PAD == 50
MIN_REGION_COUNT == 4

\* One Y met by the loop of find_table_regions.
RegionStep(rg, y) ==
    IF y - rg.region_end > REGION_GAP
    THEN [regions |-> IF rg.region_count >= MIN_REGION_COUNT
                      THEN Append(rg.regions,
                                  <<rg.region_start - REGION_PAD, rg.region_end + REGION_PAD>>)
                      ELSE rg.regions,
          region_start |-> y, region_end |-> y, region_count |-> 1]
    ELSE [rg EXCEPT !.region_end = y, !.region_count = @ + 1]

RECURSIVE RegionLoop(_, _)
RegionLoop(y_positions, k) ==
    IF k = 1
    THEN [regions |-> <<>>, region_start |-> y_positions[1], region_end |-> y_positions[1],
          region_count |-> 1]
    ELSE RegionStep(RegionLoop(y_positions, k - 1), y_positions[k])

\* Don't forget last region.
CloseRegion(rg) ==
    IF rg.region_count >= MIN_REGION_COUNT
    THEN Append(rg.regions, <<rg.region_start - REGION_PAD, rg.region_end + REGION_PAD>>)
    ELSE rg.regions

\* find_table_regions: the regions as pairs <<y_min, y_max>>.
find_table_regions(cands) ==
    IF cands = <<>> THEN <<>>
    ELSE CloseRegion(RegionLoop(SortAscending(YsOf(cands)), Len(cands)))

SAME_ROW_Y == 80
X_CLUSTER_GAP == 200
MIN_ROW_CLUSTERS == 3
MIN_QUALIFYING_ROWS == 3
MAX_ROW_GAP == 250
ALIGN_TOLERANCE == 100
SCORE_SCALE == 5040

\* Step 1 of find_table_regions_strict: the item joins the first row group
\* whose first Y is within 8pt of its own, or opens a new one.
RowGroupStep(row_groups, item) ==
    LET hits == {g \in 1..Len(row_groups) : Abs(item.y - row_groups[g].y) < SAME_ROW_Y}
    IN  IF hits = {} THEN Append(row_groups, [y |-> item.y, xs |-> <<item.x>>])
        ELSE [row_groups EXCEPT ![SetMin(hits)].xs = Append(@, item.x)]

RECURSIVE RowGroups(_, _)
RowGroups(cands, k) ==
    IF k = 0 THEN <<>> ELSE RowGroupStep(RowGroups(cands, k - 1), cands[k].item)

\* Step 2: the cluster starts of the sorted X of a row; a new cluster starts
\* more than 20pt after the start of the one before.
ClusterStartStep(cluster_starts, x) ==
    IF x - cluster_starts[Len(cluster_starts)] > X_CLUSTER_GAP
    THEN Append(cluster_starts, x)
    ELSE cluster_starts

RECURSIVE ClusterStarts(_, _)
ClusterStarts(sorted_xs, k) ==
    IF k = 1 THEN <<sorted_xs[1]>>
    ELSE ClusterStartStep(ClusterStarts(sorted_xs, k - 1), sorted_xs[k])

QualifyingRows(row_groups) ==
    LET with_starts == [g \in 1..Len(row_groups) |->
            [y |-> row_groups[g].y,
             xs |-> ClusterStarts(SortAscending(row_groups[g].xs), Len(row_groups[g].xs))]]
    IN  Filter(with_starts, {with_starts[g] : g \in {h \in 1..Len(with_starts) :
                                Len(with_starts[h].xs) >= MIN_ROW_CLUSTERS}})

\* sort_by on the Y of the rows, stable.
RECURSIVE InsertByY(_, _)
InsertByY(s, e) ==
    IF s = <<>> THEN <<e>>
    ELSE IF e.y < Head(s).y THEN <<e>> \o s
    ELSE <<Head(s)>> \o InsertByY(Tail(s), e)

RECURSIVE SortByY(_)
SortByY(s) ==
    IF s = <<>> THEN <<>>
    ELSE InsertByY(SortByY(SubSeq(s, 1, Len(s) - 1)), s[Len(s)])

\* Step 3: the runs of rows at most 25pt apart, those of three rows and more.
RunStep(rn, row) ==
    IF row.y - rn.current[Len(rn.current)].y > MAX_ROW_GAP
    THEN [runs |-> IF Len(rn.current) >= MIN_QUALIFYING_ROWS
                   THEN Append(rn.runs, rn.current) ELSE rn.runs,
          current |-> <<row>>]
    ELSE [rn EXCEPT !.current = Append(@, row)]

RECURSIVE RunLoop(_, _)
RunLoop(qualifying_rows, k) ==
    IF k = 1 THEN [runs |-> <<>>, current |-> <<qualifying_rows[1]>>]
    ELSE RunStep(RunLoop(qualifying_rows, k - 1), qualifying_rows[k])

CandidateRegions(rn) ==
    IF Len(rn.current) >= MIN_QUALIFYING_ROWS THEN Append(rn.runs, rn.current) ELSE rn.runs

Matches(centers_a, centers_b) ==
    Cardinality({i \in 1..Len(centers_a) :
        \E j \in 1..Len(centers_b) : Abs(centers_a[i] - centers_b[j]) < ALIGN_TOLERANCE})

\* (matches_a + matches_b) / (2 * max_len), times SCORE_SCALE; exact for rows
\* of up to ten clusters.
PairScore(centers_a, centers_b) ==
    ((Matches(centers_a, centers_b) + Matches(centers_b, centers_a)) * SCORE_SCALE)
        \div (2 * Max(Len(centers_a), Len(centers_b)))

RowPairs(n) == {p \in (1..n) \X (1..n) : p[1] < p[2]}

RECURSIVE SumScores(_, _)
SumScores(region_rows, pairs) ==
    IF pairs = {} THEN 0
    ELSE LET p == CHOOSE q \in pairs : TRUE
         IN  PairScore(region_rows[p[1]].xs, region_rows[p[2]].xs)
                + SumScores(region_rows, pairs \ {p})

\* Step 4: avg_score >= 0.5.
AlignedRegion(region_rows) ==
    /\ RowPairs(Len(region_rows)) # {}
    /\ SumScores(region_rows, RowPairs(Len(region_rows))) * 2
            >= Cardinality(RowPairs(Len(region_rows))) * SCORE_SCALE

StrictRegions(candidate_regions) ==
    LET spans == [k \in 1..Len(candidate_regions) |->
                    <<candidate_regions[k][1].y - REGION_PAD,
                      candidate_regions[k][Len(candidate_regions[k])].y + REGION_PAD>>]
    IN  Filter(spans, {spans[k] : k \in {j \in 1..Len(candidate_regions) :
                            AlignedRegion(candidate_regions[j])}})

RegionsOfRows(qualifying_rows) ==
    IF Len(qualifying_rows) < MIN_QUALIFYING_ROWS THEN <<>>
    ELSE StrictRegions(CandidateRegions(RunLoop(SortByY(qualifying_rows), Len(qualifying_rows))))

find_table_regions_strict(cands) ==
    IF cands = <<>> THEN <<>>
    ELSE RegionsOfRows(QualifyingRows(RowGroups(cands, Len(cands))))

MIN_ITEMS == 6
MIN_BODY_ITEMS == 9
MIN_TABLE_FONT == 60

\* The candidates of a pass whose Y lies in the region.
RegionItems(cands, region) ==
    Filter(cands, {cands[k] : k \in {j \in 1..Len(cands) :
        cands[j].item.y >= region[1] /\ cands[j].item.y <= region[2]}})

NoTables == [tables |-> <<>>, claimed |-> {}]

\* What detect_table_in_region returned is pushed; the first pass also
\* claims the indices of the table.
PushTable(found, outcome, mode) ==
    IF ~outcome.some THEN found
    ELSE [tables |-> Append(found.tables, outcome.val),
          claimed |-> IF mode = SmallFont
                      THEN found.claimed \cup
                            {outcome.val.item_indices[k] :
                                k \in 1..Len(outcome.val.item_indices)}
                      ELSE found.claimed]

\* One region of a pass, from every tables-so-far to every tables-after.
RegionPass(founds, region_items, mode, min_items) ==
    IF Len(region_items) < min_items THEN founds
    ELSE {PushTable(found, outcome, mode) :
            found \in founds, outcome \in detect_table_in_region(region_items, mode)}

RECURSIVE RegionsPass(_, _, _, _, _, _)
RegionsPass(founds, cands, regions, k, mode, min_items) ==
    IF k = 0 THEN founds
    ELSE RegionPass(RegionsPass(founds, cands, regions, k - 1, mode, min_items),
                    RegionItems(cands, regions[k]), mode, min_items)

SmallFontCandidates(its, base_font_size) ==
    Filter(Enumerate(its), {Enumerate(its)[k] : k \in {j \in 1..Len(its) :
        its[j].font_size * 10 <= base_font_size * 9 /\ its[j].font_size >= MIN_TABLE_FONT}})

BodyFontCandidates_unclaimed(its, base_font_size, claimed) ==
    Filter(Enumerate(its), {Enumerate(its)[k] : k \in {j \in 1..Len(its) :
        /\ its[j].font_size * 100 >= base_font_size * 85
        /\ its[j].font_size * 100 <= base_font_size * 105
        /\ its[j].font_size >= MIN_TABLE_FONT}})

BodyFontCandidates(its, base_font_size, claimed) ==
    Filter(Enumerate(its), {Enumerate(its)[k] : k \in {j \in 1..Len(its) :
        /\ (j - 1) \notin claimed
        /\ its[j].font_size * 100 >= base_font_size * 85
        /\ its[j].font_size * 100 <= base_font_size * 105
        /\ its[j].font_size >= MIN_TABLE_FONT}})

SmallFontPass(cands) ==
    IF Len(cands) >= MIN_ITEMS
    THEN RegionsPass({NoTables}, cands, find_table_regions(cands),
                     Len(find_table_regions(cands)), SmallFont, MIN_ITEMS)
    ELSE {NoTables}

BodyFontPass(found, cands) ==
    IF Len(cands) >= MIN_BODY_ITEMS
    THEN RegionsPass({found}, cands, find_table_regions_strict(cands),
                     Len(find_table_regions_strict(cands)), BodyFont, MIN_BODY_ITEMS)
    ELSE {found}

\* detect_tables: the set of the table lists it can return, one list unless the
\* iteration order of a HashMap decides (has_consistent_columns).
detect_tables(its, base_font_size) ==
    IF Len(its) < MIN_ITEMS THEN {<<>>}
    ELSE {after.tables :
            after \in UNION {BodyFontPass(found,
                                BodyFontCandidates(its, base_font_size, found.claimed)) :
                             found \in SmallFontPass(SmallFontCandidates(its, base_font_size))}}

----------------------------------------------------------------------------
\* Inputs of detect_tables: one page of sixteen items laid out as a 4x4 grid
\* of numeric cells or as wrapped single-column prose, and pages of two
\* blocks one above the other.  The body font size is 10pt.

GRID_SIDE == 4
TABLE_BASE_SIZE == 100
ColPitches == {400, 800, 1000}
RowPitches == {120, 200, 300, 400}
TableFontSizes == {80, 100}
ProseRowPitches == {120, 150, 200}
BlockFontSizes == {80, 90, 100}

Digit(k) == <<"0", "1", "2", "3", "4", "5", "6", "7", "8", "9">>[k + 1]
NumText(r, c) == <<Digit(r), ".", Digit(c)>>

\* A grid of side x side numeric cells in row-major order, its top-left cell at (100pt, top).
GridBlock(side, col_pitch, row_pitch, font_size, top) ==
    [k \in 1..(side * side) |->
        TextItem(NumText(((k - 1) \div side) + 1, ((k - 1) % side) + 1),
                 1000 + col_pitch * ((k - 1) % side),
                 top - row_pitch * ((k - 1) \div side), 100, font_size, 1)]

GridItems(col_pitch, row_pitch, font_size) ==
    GridBlock(GRID_SIDE, col_pitch, row_pitch, font_size, 7000)

\* Sixteen words of prose wrapped at the right margin, per_line words on a
\* line, every word one item, the word starts word_pitch apart.
WrappedProse(per_line, word_pitch, row_pitch, font_size) ==
    [k \in 1..(GRID_SIDE * GRID_SIDE) |->
        TextItem(Word, 720 + word_pitch * ((k - 1) % per_line),
                 7000 - row_pitch * ((k - 1) \div per_line), 100, font_size, 1)]

\* Four words on each of four lines, the word starts ragged.
RaggedWordX ==
    <<720, 950, 1450, 1800, 720, 1050, 1850, 2320, 720, 1420, 1900, 2900, 720, 1400, 1780, 2620>>

RaggedProse(row_pitch, font_size) ==
    [k \in 1..(GRID_SIDE * GRID_SIDE) |->
        TextItem(Word, RaggedWordX[k], 7000 - row_pitch * ((k - 1) \div 4), 100, font_size, 1)]

GridInputs ==
    {GridItems(cp, rp, fs) : cp \in ColPitches, rp \in RowPitches, fs \in TableFontSizes}

ProseInputs ==
    {WrappedProse(n, 300, rp, fs) : n \in {1, 4, 6, 8}, rp \in ProseRowPitches, fs \in TableFontSizes}
        \cup {RaggedProse(rp, fs) : rp \in ProseRowPitches, fs \in TableFontSizes}

\* Two grids of three rows, one above the other, gap apart.
TwoBlockInputs ==
    {GridBlock(3, 800, 150, fs1, 7000) \o GridBlock(3, 800, 150, fs2, 7000 - 300 - gap) :
        fs1 \in BlockFontSizes, fs2 \in BlockFontSizes, gap \in {150, 400}}

TableInputs == GridInputs \cup ProseInputs \cup TwoBlockInputs

IsGridInput == call.items \in GridInputs
IsProseInput == call.items \in ProseInputs

TablesInit ==
    /\ call \in {[fn |-> "detect_tables", items |-> its, base_font_size |-> TABLE_BASE_SIZE] :
                    its \in TableInputs}
    /\ ret = NotReturned
    /\ LayoutIdle /\ DecodeIdle /\ InterpIdle /\ EmitIdle

DetectTables ==
    /\ call.fn = "detect_tables"
    /\ ~ret.done
    /\ \E tables \in detect_tables(call.items, call.base_font_size) : ret' = Returned(tables)
    /\ UNCHANGED <<call, layoutVars, decodeVars, interpVars, emitVars>>

TablesNext == DetectTables

SpecTables == TablesInit /\ [][TablesNext]_vars

TablesReturned == call.fn = "detect_tables" /\ ret.done

\* C12: a 4x4 grid of numeric cells gives exactly one Table with 4 columns and
\* 4 rows, and the same number of items arranged as wrapped single-column
\* prose gives no table.
C12_GridOneTableProseNone ==
    TablesReturned =>
        /\ IsGridInput =>
                /\ Len(ret.val) = 1
                /\ Len(ret.val[1].columns) = 4
                /\ Len(ret.val[1].rows) = 4
        /\ IsProseInput => ret.val = <<>>

\* The grid of the repository's test is found as one 4x4 table.
C12_GridFound ==
    /\ TablesReturned
    /\ call.items = GridItems(800, 200, 80)
    /\ Len(ret.val) = 1 /\ Len(ret.val[1].columns) = 4 /\ Len(ret.val[1].rows) = 4

\* The indices claimed by the tables of a result, in the order of the tables.
RECURSIVE ClaimedIndices(_)
ClaimedIndices(tables) ==
    IF tables = <<>> THEN <<>>
    ELSE Head(tables).item_indices \o ClaimedIndices(Tail(tables))

\* C14: an item belongs to at most one Table of the page, whatever pass and
\* region found the table, and is listed once in that table.
C14_ItemInOneTable ==
    TablesReturned =>
        \A i, j \in 1..Len(ClaimedIndices(ret.val)) :
            i # j => ClaimedIndices(ret.val)[i] # ClaimedIndices(ret.val)[j]

\* Both passes found a table on one page: the first pass the small-font grid,
\* the second pass the body-font grid.
C14_Witness ==
    /\ TablesReturned
    /\ call.items = GridBlock(3, 800, 150, 90, 7000) \o GridBlock(3, 800, 150, 100, 6300)
    /\ Len(ret.val) = 2
    /\ ret.val[1].item_indices = <<0, 1, 2, 3, 4, 5, 6, 7, 8>>
    /\ ret.val[2].item_indices = <<9, 10, 11, 12, 13, 14, 15, 16, 17>>

----------------------------------------------------------------------------
\* Inputs of detect_columns: pages of two blocks of lines side by side, and
\* pages of justified single-column prose of word items.

BlockWidths == {400, 800, 1000}
BlockCounts == {20, 21}
BlockShifts == {0, 7, 10, 14}
LINE_PITCH == 120
LEFT_MARGIN == 720

\* n lines of one item, width wide, the first line shift lines under the top.
BlockLines(n, x, width, shift) ==
    [k \in 1..n |-> TextItem(Word, x, 7000 - LINE_PITCH * (k - 1 + shift), width, 100, 1)]

\* Two blocks of the same width, gap apart, the right one shift lines lower.
TwoBlocks(n_left, n_right, width, gap, shift) ==
    BlockLines(n_left, LEFT_MARGIN, width, 0)
        \o BlockLines(n_right, LEFT_MARGIN + width + gap, width, shift)

BlockLayouts ==
    {[kind |-> "blocks", n_left |-> nl, n_right |-> nr, width |-> w, gap |-> w * g, shift |-> s] :
        nl \in BlockCounts, nr \in BlockCounts, w \in BlockWidths, g \in {1, 2}, s \in BlockShifts}

\* A justified line: words of one width, the first at the left margin, the
\* last ending at the right margin, the gaps equal.
LinePatterns ==
    <<[words |-> 4, width |-> 540, gap |-> 80],
      [words |-> 3, width |-> 700, gap |-> 150],
      [words |-> 5, width |-> 400, gap |-> 100]>>

JustifiedLine(pattern, y) ==
    [w \in 1..pattern.words |->
        TextItem(Word, LEFT_MARGIN + (w - 1) * (pattern.width + pattern.gap), y, pattern.width, 100, 1)]

\* num_lines justified lines, line k set in the pattern mix[((k - 1) % Len(mix)) + 1].
RECURSIVE JustifiedProse(_, _)
JustifiedProse(mix, num_lines) ==
    IF num_lines = 0 THEN <<>>
    ELSE JustifiedProse(mix, num_lines - 1)
            \o JustifiedLine(LinePatterns[mix[((num_lines - 1) % Len(mix)) + 1]],
                             7000 - LINE_PITCH * (num_lines - 1))

ProseLayouts ==
    {[kind |-> "prose", mix |-> m, num_lines |-> n] :
        m \in {<<1>>, <<1, 2>>, <<1, 2, 3>>, <<2, 3>>}, n \in {4, 10, 20}}

LayoutItems(layout) ==
    IF layout.kind = "blocks"
    THEN TwoBlocks(layout.n_left, layout.n_right, layout.width, layout.gap, layout.shift)
    ELSE JustifiedProse(layout.mix, layout.num_lines)

ColumnsInit ==
    /\ call \in {[fn |-> "detect_columns", layout |-> l, items |-> LayoutItems(l)] :
                    l \in BlockLayouts \cup ProseLayouts}
    /\ ret = NotReturned
    /\ LayoutIdle /\ DecodeIdle /\ InterpIdle /\ EmitIdle

DetectColumns ==
    /\ call.fn = "detect_columns"
    /\ ~ret.done
    /\ ret' = Returned(detect_columns(call.items))
    /\ UNCHANGED <<call, layoutVars, decodeVars, interpVars, emitVars>>

ColumnsNext == DetectColumns

SpecColumns == ColumnsInit /\ [][ColumnsNext]_vars

ColumnsReturned == call.fn = "detect_columns" /\ ret.done

\* The overlap of the Y ranges of the two blocks and the Y range of the page, in lines.
BlockOverlap(l) == Max(Min(l.n_left - 1, l.n_right - 1 + l.shift) - l.shift, 0)
BlockYRange(l) == Max(l.n_left - 1, l.n_right - 1 + l.shift)

\* The gap is wider than 30% of the width of the page's text, each side has
\* at least 20 items, the vertical overlap is at least 30%.
ClearlySeparated(l) ==
    /\ l.kind = "blocks"
    /\ l.gap * 10 > 3 * (2 * l.width + l.gap)
    /\ l.n_left >= 20 /\ l.n_right >= 20
    /\ BlockOverlap(l) * 10 >= 3 * BlockYRange(l)

\* C13: two clearly separated blocks are detected as exactly 2 columns, and
\* justified single-column prose as 1 column whatever its number of items.
C13_TwoBlocksTwoColumns ==
    ColumnsReturned =>
        /\ ClearlySeparated(call.layout) => Len(ret.val) = 2
        /\ call.layout.kind = "prose" => Len(ret.val) = 1

----------------------------------------------------------------------------
\* group_into_lines on items of several pages, the pages interleaved in the
\* stream.

MaxPageItems == 3
PageNumbers == {1, 2, 3}

PagesPool ==
    {TextItem(Word, x, y, 0, 120, p) : x \in {1000, 1600}, y \in {7000, 7005}, p \in PageNumbers}
        \cup {TextItem(<<"7">>, 1600, 500, 0, 120, 2)}

PagesInputs ==
    SeqsUpTo(PagesPool, MaxPageItems)
        \cup {e1 \o TwoColumnBase \o e2 : e1 \in SeqsUpTo(PagesPool, 1), e2 \in SeqsUpTo(PagesPool, 1)}

PagesInit ==
    /\ items \in PagesInputs
    /\ lines = <<>>
    /\ stage = "input"
    /\ DecodeIdle
    /\ InterpIdle
    /\ EmitIdle
    /\ CallIdle

PagesNext == GroupIntoLines

SpecPages == PagesInit /\ [][PagesNext]_vars

\* The items of page p in stream order.
ItemsOfPage(its, p) == Filter(its, {it \in {its[i] : i \in 1..Len(its)} : it.page = p})

\* C16: the lines come by ascending page with the lines of a page together,
\* a line carries the page of all its items, and the lines of a page are the
\* lines group_into_lines gives for the items of that page alone.
C16_PagesConcatenated ==
    stage = "grouped" =>
        /\ \A i, j \in 1..Len(lines) : i < j => lines[i].page <= lines[j].page
        /\ \A k \in 1..Len(lines) :
                \A i \in 1..Len(lines[k].items) : lines[k].items[i].page = lines[k].page
        /\ \A p \in PageNumbers : PageLines(lines, p) = group_into_lines(ItemsOfPage(items, p))

\* Items of page 2, page 1 and page 2 again: the line of page 1 comes first.
C16_Witness ==
    /\ stage = "grouped"
    /\ Len(items) = 3
    /\ items[1].page = 2 /\ items[2].page = 1 /\ items[3].page = 2
    /\ items[1].y = 7000 /\ items[3].y = 7000
    /\ Len(lines) = 2
    /\ lines[1].page = 1 /\ lines[2].page = 2
    /\ Len(lines[2].items) = 2

----------------------------------------------------------------------------
\* to_markdown_from_items on documents of text items, every page under the
\* six items detect_tables asks for, so that page_tables and page_images are
\* empty and every item goes to group_into_lines.

\* The page break of to_markdown_from_lines_with_tables_and_images: it keeps
\* in_list and last_list_x.
PageBreakWithTables(st, line) ==
    IF line.page = st.current_page THEN st
    ELSE IF st.current_page > 0
         THEN [CloseParagraph(st) EXCEPT !.output = @ \o <<NL, NL>>,
                                        !.current_page = line.page,
                                        !.prev_y = PREV_Y_MAX]
         ELSE [st EXCEPT !.current_page = line.page, !.prev_y = PREV_Y_MAX]

EmitLineWithTables(st, line, opts, base_size, heading_tiers, para_threshold) ==
    EmitText(ParagraphBreak(PageBreakWithTables(st, line), line, para_threshold),
             line, Trim(text_plain(line)), opts, base_size, heading_tiers)

RECURSIVE EmitLoopWithTables(_, _, _, _, _, _)
EmitLoopWithTables(ls, k, opts, base_size, heading_tiers, para_threshold) ==
    IF k = 0 THEN EmitState
    ELSE EmitLineWithTables(
            EmitLoopWithTables(ls, k - 1, opts, base_size, heading_tiers, para_threshold),
            ls[k], opts, base_size, heading_tiers, para_threshold)

EmitMergedWithTables(ls, opts, base_size, heading_tiers) ==
    clean_markdown(CloseFinalParagraph(
        EmitLoopWithTables(ls, Len(ls), opts, base_size, heading_tiers,
                           compute_paragraph_threshold(ls, base_size))))

EmitDropCapsMerged(ls, opts, base_size) ==
    EmitMergedWithTables(
        merge_heading_lines(ls, base_size, compute_heading_tiers(ls, base_size)),
        opts, base_size, compute_heading_tiers(ls, base_size))

\* to_markdown_from_lines_with_tables_and_images with empty page_tables and
\* page_images, most_common_size being what the font statistics came to.
to_markdown_from_lines_with_tables_and_images(ls, opts, most_common_size) ==
    IF ls = <<>> THEN <<>>
    ELSE EmitDropCapsMerged(
            merge_drop_caps(ls, UnwrapOr(opts.base_font_size, most_common_size)),
            opts, UnwrapOr(opts.base_font_size, most_common_size))

\* to_markdown_from_items: the set of the Markdown texts it can return, one
\* text unless the iteration order of a HashMap decides (calculate_font_stats).
to_markdown_from_items(its, opts) ==
    IF its = <<>> THEN {<<>>}
    ELSE {to_markdown_from_lines_with_tables_and_images(group_into_lines(its), opts, size) :
            size \in calculate_font_stats(group_into_lines(its))}

MaxPages == 2

\* What a page can hold: a 12pt line, three 10pt lines, a 15pt line, a 24pt
\* line, a bullet and the line under it, two 12pt lines.
PageKinds == {"title", "body", "sub", "head", "list", "text"}

PageContent(kind, p) ==
    CASE kind = "title" -> <<TextItem(<<"T", "i", "t", "l", "e">>, 1000, 7000, 0, 120, p)>>
      [] kind = "body" -> [k \in 1..3 |-> TextItem(<<"b", "o", "d", "y">>, 1000, 7000 - 140 * k, 0, 100, p)]
      [] kind = "sub" -> <<TextItem(<<"P", "a", "r", "t">>, 1000, 7000, 0, 150, p)>>
      [] kind = "head" -> <<TextItem(<<"H", "e", "a", "d">>, 1000, 7000, 0, 240, p)>>
      [] kind = "list" -> <<TextItem(<<"bullet", " ", "i", "t">>, 1000, 7000, 0, 100, p),
                            TextItem(<<"o", "n">>, 1100, 6880, 0, 100, p)>>
      [] OTHER -> [k \in 1..2 |-> TextItem(<<"t", "e", "x", "t">>, 1000, 7000 - 140 * k, 0, 120, p)]

\* The items of the pages 1..Len(kinds), page after page.
RECURSIVE Document(_)
Document(kinds) ==
    IF kinds = <<>> THEN <<>>
    ELSE Document(SubSeq(kinds, 1, Len(kinds) - 1)) \o PageContent(kinds[Len(kinds)], Len(kinds))

\* The options of the call; a base_font_size of 0 stands for None.
CallOptions ==
    MarkdownOptions(call.detect_headers, call.detect_lists,
                    IF call.base_font_size = 0 THEN None ELSE Some(call.base_font_size))

DocumentInit ==
    /\ call \in {[fn |-> "to_markdown_from_items", kinds |-> kinds, items |-> Document(kinds),
                   detect_headers |-> h, detect_lists |-> l, base_font_size |-> b] :
                    kinds \in SeqsUpTo(PageKinds, MaxPages) \ {<<>>},
                    h \in BOOLEAN, l \in BOOLEAN, b \in {0, 120}}
    /\ ret = NotReturned
    /\ LayoutIdle /\ DecodeIdle /\ InterpIdle /\ EmitIdle

ToMarkdownFromItems ==
    /\ call.fn = "to_markdown_from_items"
    /\ ~ret.done
    /\ \E markdown \in to_markdown_from_items(call.items, CallOptions) : ret' = Returned(markdown)
    /\ UNCHANGED <<call, layoutVars, decodeVars, interpVars, emitVars>>

DocumentNext == ToMarkdownFromItems

SpecDocument == DocumentInit /\ [][DocumentNext]_vars

DocumentReturned == call.fn = "to_markdown_from_items" /\ ret.done

\* The texts of the pages 1..n put one after the other, a page separator (the
\* blank line the emitter leaves at a page break) between two pages.
RECURSIVE JoinPages(_, _)
JoinPages(texts, n) ==
    IF n = 1 THEN texts[1] ELSE JoinPages(texts, n - 1) \o <<NL>> \o texts[n]

\* The Markdown texts that converting every page alone and concatenating gives.
PerPageMarkdown(kinds, opts) ==
    {JoinPages(texts, Len(kinds)) :
        texts \in {t \in [1..Len(kinds) -> UNION {to_markdown_from_items(PageContent(kinds[p], p), opts) : p \in 1..Len(kinds)}] :
                    \A p \in 1..Len(kinds) : t[p] \in to_markdown_from_items(PageContent(kinds[p], p), opts)}}

\* C15: the Markdown of a document of several pages is the Markdown of each
\* page's items converted alone, concatenated with the page separator.
C15_PagesIndependent ==
    DocumentReturned => ret.val \in PerPageMarkdown(call.kinds, CallOptions)

----------------------------------------------------------------------------
\* process_pdf and process_pdf_mem.  What detection and extraction make of
\* the file or buffer is drawn when the step runs; processing_time_ms is
\* left out.

PdfTypes == {"TextBased", "Scanned", "ImageBased", "Mixed"}
PdfErrors == {"Io", "Parse", "Encrypted", "InvalidStructure"}
PageCounts == {1, 2, 3}

PdfTypeResult(pdf_type, page_count) == [pdf_type |-> pdf_type, page_count |-> page_count]

PdfProcessResult(pdf_type, text, markdown, page_count) ==
    [pdf_type |-> pdf_type, text |-> text, markdown |-> markdown, page_count |-> page_count]

ProcessOk(processed) == [ok |-> TRUE, result |-> processed]
ProcessErr(error) == [ok |-> FALSE, error |-> error]

\* MarkdownOptions::default().
DefaultOptions == MarkdownOptions(TRUE, TRUE, None)

\* The item lists extraction can come to: none, a title page, a title page
\* and a page of body text.
ExtractedItems == {<<>>, Document(<<"title">>), Document(<<"title", "body">>)}

ProcessStart(fn) ==
    [fn |-> fn, pc |-> "detect", pdf_type |-> "unknown", page_count |-> 0,
     extraction_ran |-> FALSE, extraction_error |-> "none", items |-> <<>>]

ProcessInit ==
    /\ call \in {ProcessStart(fn) : fn \in {"process_pdf", "process_pdf_mem"}}
    /\ ret = NotReturned
    /\ LayoutIdle /\ DecodeIdle /\ InterpIdle /\ EmitIdle

\* let detection = detect_pdf_type(&path)?; and the arm of the match that
\* needs no extraction.
AfterDetection(c, detection) ==
    [c EXCEPT !.pdf_type = detection.pdf_type,
              !.page_count = detection.page_count,
              !.pc = IF detection.pdf_type \in {"Scanned", "ImageBased"} THEN "done" ELSE "extract"]

DetectPdfType ==
    /\ call.pc = "detect"
    /\ \/ \E error \in PdfErrors :
            /\ call' = [call EXCEPT !.pc = "done"]
            /\ ret' = Returned(ProcessErr(error))
       \/ \E pdf_type \in PdfTypes, page_count \in PageCounts :
            /\ call' = AfterDetection(call, PdfTypeResult(pdf_type, page_count))
            /\ ret' = IF pdf_type \in {"Scanned", "ImageBased"}
                      THEN Returned(ProcessOk(PdfProcessResult(pdf_type, None, None, page_count)))
                      ELSE NotReturned
    /\ UNCHANGED <<layoutVars, decodeVars, interpVars, emitVars>>

\* What the caller gets when extraction failed: `?` for TextBased, .ok() for
\* Mixed.
ExtractionFailed_propagated(c, error) == Returned(ProcessErr(error))

ExtractionFailed(c, error) ==
    IF c.pdf_type = "TextBased" THEN Returned(ProcessErr(error))
    ELSE Returned(ProcessOk(PdfProcessResult("Mixed", None, None, c.page_count)))

ExtractTextWithPositions ==
    /\ call.pc = "extract"
    /\ \/ \E error \in PdfErrors :
            /\ call' = [call EXCEPT !.pc = "done", !.extraction_ran = TRUE,
                                    !.extraction_error = error]
            /\ ret' = ExtractionFailed(call, error)
       \/ \E its \in ExtractedItems :
            /\ call' = [call EXCEPT !.pc = "convert", !.extraction_ran = TRUE, !.items = its]
            /\ ret' = ret
    /\ UNCHANGED <<layoutVars, decodeVars, interpVars, emitVars>>

ConvertToMarkdown ==
    /\ call.pc = "convert"
    /\ \E markdown \in to_markdown_from_items(call.items, DefaultOptions) :
            ret' = Returned(ProcessOk(
                        PdfProcessResult(call.pdf_type, None, Some(markdown), call.page_count)))
    /\ call' = [call EXCEPT !.pc = "done"]
    /\ UNCHANGED <<layoutVars, decodeVars, interpVars, emitVars>>

ProcessNext == DetectPdfType \/ ExtractTextWithPositions \/ ConvertToMarkdown

SpecProcess == ProcessInit /\ [][ProcessNext]_vars

IsProcessCall == call.fn \in {"process_pdf", "process_pdf_mem"}
ProcessReturned == IsProcessCall /\ ret.done

\* C17: Scanned and ImageBased return Ok with markdown and text absent and
\* extraction never runs; TextBased returns the extraction error as Err and
\* on success Ok with markdown present; Mixed turns an extraction error into
\* Ok with markdown absent.
C17_ExtractionGated ==
    IsProcessCall =>
        /\ call.pdf_type \in {"Scanned", "ImageBased"} =>
                /\ ~call.extraction_ran
                /\ ret.done /\ ret.val.ok
                /\ ~ret.val.result.markdown.some /\ ~ret.val.result.text.some
                /\ ret.val.result.pdf_type = call.pdf_type
        /\ ProcessReturned /\ call.pdf_type = "TextBased" =>
                IF call.extraction_error # "none"
                THEN ret.val = ProcessErr(call.extraction_error)
                ELSE ret.val.ok /\ ret.val.result.markdown.some
        /\ ProcessReturned /\ call.pdf_type = "Mixed" /\ call.extraction_error # "none" =>
                ret.val.ok /\ ~ret.val.result.markdown.some /\ ~ret.val.result.text.some

\* A Mixed buffer whose extraction failed with a parse error came back Ok
\* without markdown.
C17_Witness ==
    /\ ProcessReturned
    /\ call.fn = "process_pdf_mem"
    /\ call.pdf_type = "Mixed"
    /\ call.extraction_ran /\ call.extraction_error = "Parse"
    /\ ret.val.ok /\ ~ret.val.result.markdown.some

----------------------------------------------------------------------------
(* The graphics state of the page interpreter: q, Q and cm.                 *)

MaxGraphicsOps == 4

OpSave == Operation("q", <<>>)
OpRestore == Operation("Q", <<>>)
OpCmMove == Operation("cm", <<IntegerObject(1), IntegerObject(0), IntegerObject(0),
                              IntegerObject(1), IntegerObject(30), IntegerObject(40)>>)
\* A cm with five operands.
OpCmShort == Operation("cm", <<IntegerObject(2), IntegerObject(0), IntegerObject(0),
                               IntegerObject(2), IntegerObject(100)>>)
OpTd(tx, ty) == Operation("Td", <<IntegerObject(tx), IntegerObject(ty)>>)

GraphicsOpPool ==
    {OpSave, OpRestore, OpCm, OpCmMove, OpCmShort, OpTd(50, -20),
     OpTf(IntegerObject(200)), OpDo(Fm1)}

\* A form that concatenates a matrix of its own and shows text.
GraphicsForms == 1 :> Form(Content(<<OpCm, OpBT, OpTj(66), OpET>>), EmptyFn)

GraphicsDocuments ==
    {[pages |-> <<Page(Content(operations))>>, forms |-> GraphicsForms] :
        operations \in SeqsUpTo(GraphicsOpPool, MaxGraphicsOps)}

GraphicsInit ==
    /\ doc \in GraphicsDocuments
    /\ pc = "next_page"
    /\ page_pos = 1
    /\ page_state = <<>>
    /\ frames = <<>>
    /\ all_items = <<>>
    /\ result = <<>>
    /\ LayoutIdle
    /\ DecodeIdle
    /\ EmitIdle
    /\ CallIdle

SpecGraphics == GraphicsInit /\ [][InterpNext]_vars

\* The number of q operators among the first k that no Q has matched.
RECURSIVE SaveDepth(_, _)
SaveDepth(operations, k) ==
    IF k = 0 THEN 0
    ELSE LET before == SaveDepth(operations, k - 1)
         IN  CASE operations[k].operator = "q" -> before + 1
               [] operations[k].operator = "Q" /\ before > 0 -> before - 1
               [] OTHER -> before

\* The q that the Q at position k matches.
MatchingSave(operations, k) ==
    CHOOSE j \in 1..(k - 1) :
        /\ operations[j].operator = "q"
        /\ SaveDepth(operations, j) = SaveDepth(operations, k - 1)
        /\ \A i \in (j + 1)..(k - 1) :
               operations[i].operator = "q" =>
                   SaveDepth(operations, i) # SaveDepth(operations, k - 1)

OperandMatrix(op) == [i \in 1..6 |-> op.operands[i].value]

\* The CTM that the description gives after the first k operators of a page.
RECURSIVE CtmAfter(_, _)
CtmAfter(operations, k) ==
    IF k = 0 THEN IDENTITY
    ELSE LET op == operations[k]
         IN  CASE op.operator = "cm" /\ Len(op.operands) = 6 ->
                     multiply_matrices(OperandMatrix(op), CtmAfter(operations, k - 1))
               [] op.operator = "Q" /\ SaveDepth(operations, k - 1) > 0 ->
                     CtmAfter(operations, MatchingSave(operations, k) - 1)
               [] OTHER -> CtmAfter(operations, k - 1)

CtmFollowsStack ==
    pc = "page_ops" =>
        /\ page_state.ctm = CtmAfter(CurrentPage.content.operations, page_state.ip - 1)
        /\ Len(page_state.ctm_stack)
               = SaveDepth(CurrentPage.content.operations, page_state.ip - 1)

SaveRestoreKeepTextState ==
    AtPageOp /\ PageOpNow.operator \in {"q", "Q"} =>
        /\ page_state'.text_matrix = page_state.text_matrix
        /\ page_state'.line_matrix = page_state.line_matrix
        /\ page_state'.current_font = page_state.current_font
        /\ page_state'.current_font_size = page_state.current_font_size

\* C18: the CTM of the page interpreter is kept on a stack: after any
\* operators the CTM is the one that results when q saves it, Q puts back
\* the CTM saved by the matching q, a Q without a matching q does nothing and
\* a cm with six operands multiplies its matrix onto the CTM from the left;
\* a q or Q step changes neither the text matrix, the line matrix, the font
\* nor the font size.
C18_CtmStack == []CtmFollowsStack /\ [][SaveRestoreKeepTextState]_vars

\* After q, cm, Td and Q the CTM is the identity again, and the text matrix
\* is the one Td has set.
C18_Witness ==
    /\ pc = "page_ops"
    /\ CurrentPage.content.operations = <<OpSave, OpCm, OpTd(50, -20), OpRestore>>
    /\ page_state.ip = 5
    /\ page_state.ctm = IDENTITY
    /\ page_state.text_matrix = <<1, 0, 0, 1, 50, -20>>

----------------------------------------------------------------------------
(* The text state of the interpreters: BT, ET, Td, TD, Tm and T*.           *)

MaxTextOps == 4

OpTm == Operation("Tm", <<IntegerObject(1), IntegerObject(0), IntegerObject(0),
                          IntegerObject(1), IntegerObject(300), IntegerObject(400)>>)
OpTStar == Operation("T*", <<>>)

\* The tables of a page or form whose font F1 has a width table: "B" is 500
\* units wide, every other glyph 250, and there are 1000 units to the em.
WidthFontEnv ==
    [current_font |-> F1, font_tounicode_refs |-> EmptyFn, font_base_names |-> EmptyFn,
     font_cmaps |-> [by_obj |-> EmptyFn, with_obj |-> EmptyFn, by_name |-> <<>>],
     font_encodings |-> EmptyFn, fonts |-> EmptyFn,
     font_widths |-> (F1 :> FontWidthInfo((66 :> 500), 250, 250, 1000))]

TextOpPool ==
    {OpBT, OpET, OpTd(50, -20), OpTm, OpTStar, OpTf(IntegerObject(200)), OpTj(65), OpDo(Fm1)}

\* A form that shows two strings, each after a Td.
TextForms ==
    1 :> [content |-> Content(<<OpBT, OpTf(IntegerObject(100)), OpTd(50, -20), OpTj(66),
                                OpTd(0, -30), OpTj(67), OpET>>),
          xobjects |-> EmptyFn, font_tables |-> WidthFontEnv]

TextDocuments ==
    {[pages |-> <<[content |-> Content(operations), font_tables |-> WidthFontEnv,
                   xobjects |-> (Fm1 :> FormXObject(1))]>>,
      forms |-> TextForms] :
        operations \in SeqsUpTo(TextOpPool, MaxTextOps)}

TextStateInit ==
    /\ doc \in TextDocuments
    /\ pc = "next_page"
    /\ page_pos = 1
    /\ page_state = <<>>
    /\ frames = <<>>
    /\ all_items = <<>>
    /\ result = <<>>
    /\ LayoutIdle
    /\ DecodeIdle
    /\ EmitIdle
    /\ CallIdle

SpecTextState == TextStateInit /\ [][InterpNext]_vars

Translated(m, tx, ty) == [m EXCEPT ![5] = @ + tx, ![6] = @ + ty]

\* The effect on the two matrices of a page that the description gives each
\* text-state operator.
PageTextStateAsDescribed ==
    AtPageOp =>
        LET op == PageOpNow
        IN  /\ op.operator \in {"BT", "ET"} =>
                   /\ page_state'.text_matrix = IDENTITY
                   /\ page_state'.line_matrix = IDENTITY
            /\ op.operator \in {"Td", "TD"} /\ Len(op.operands) = 2 =>
                   /\ page_state'.line_matrix =
                          Translated(page_state.line_matrix,
                                     op.operands[1].value, op.operands[2].value)
                   /\ page_state'.text_matrix = page_state'.line_matrix
            /\ op.operator = "Tm" /\ Len(op.operands) = 6 =>
                   /\ page_state'.text_matrix = OperandMatrix(op)
                   /\ page_state'.line_matrix = OperandMatrix(op)
            /\ op.operator = "T*" =>
                   /\ page_state'.line_matrix =
                          Translated(page_state.line_matrix, 0,
                                     -LineHeight(page_state.current_font_size))
                   /\ page_state'.text_matrix = page_state'.line_matrix

\* The line matrix that the description gives after the first k operators of
\* a form, which keeps no line matrix of its own.
RECURSIVE FormLineMatrix(_, _)
FormLineMatrix(operations, k) ==
    IF k = 0 THEN IDENTITY
    ELSE LET op == operations[k]
         IN  CASE op.operator \in {"BT", "ET"} -> IDENTITY
               [] op.operator \in {"Td", "TD"} /\ Len(op.operands) = 2 ->
                     Translated(FormLineMatrix(operations, k - 1),
                                op.operands[1].value, op.operands[2].value)
               [] op.operator = "Tm" /\ Len(op.operands) = 6 -> OperandMatrix(op)
               [] OTHER -> FormLineMatrix(operations, k - 1)

FormTextStateAsDescribed ==
    AtFormOp =>
        LET op == FormOpNow
            after == frames'[Len(frames)]
        IN  /\ op.operator \in {"BT", "ET"} => after.text_matrix = IDENTITY
            /\ op.operator \in {"Td", "TD"} /\ Len(op.operands) = 2 =>
                   after.text_matrix =
                       Translated(FormLineMatrix(doc.forms[TopFrame.form_id].content.operations,
                                                 TopFrame.ip - 1),
                                  op.operands[1].value, op.operands[2].value)
            /\ op.operator = "Tm" /\ Len(op.operands) = 6 =>
                   after.text_matrix = OperandMatrix(op)

\* C19: in page content and in form content, BT and ET each leave the text
\* matrix and the line matrix at the identity, Td and TD add their operands
\* to the translation of the line matrix and make it the text matrix, Tm
\* sets both matrices to its operands, and T* moves the line matrix down by
\* 1.2 times the font size and makes it the text matrix, from every state
\* that operators can produce.
C19_TextStateOperators == [][PageTextStateAsDescribed /\ FormTextStateAsDescribed]_vars

----------------------------------------------------------------------------
(* The spaces inferred from the numbers of a TJ array.                      *)

MaxTJElements == 3

\* The width tables of the current font: space glyphs of 100, 250, 278 and
\* 600 thousandths of an em, and one of 1024 units on a grid of 2048.
TJFonts ==
    <<FontWidthInfo(EmptyFn, 500, 100, 1000), FontWidthInfo(EmptyFn, 500, 250, 1000),
      FontWidthInfo(EmptyFn, 500, 278, 1000), FontWidthInfo(EmptyFn, 500, 600, 1000),
      FontWidthInfo(EmptyFn, 1024, 1024, 2048)>>

\* The font without a width table.
NoWidthTable == 0

TJFontEnv(font) ==
    [current_font |-> F1, font_tounicode_refs |-> EmptyFn, font_base_names |-> EmptyFn,
     font_cmaps |-> [by_obj |-> EmptyFn, with_obj |-> EmptyFn, by_name |-> <<>>],
     font_encodings |-> EmptyFn, fonts |-> EmptyFn,
     font_widths |-> IF font = NoWidthTable THEN EmptyFn ELSE (F1 :> TJFonts[font])]

\* Numbers on both sides of every threshold, and strings with and without a
\* space at the end.
TJNumbers == {-201, -200, -121, -120, -112, -111, -101, -100, -81, -80, 0, 150}
TJElements ==
    {IntegerObject(n) : n \in TJNumbers} \cup {RealObject(-121)}
        \cup {StringObject(<<65>>), StringObject(<<32>>), StringObject(<<65, 32>>)}

TJInit ==
    /\ call \in {[fn |-> "TJ", elements |-> elements, font |-> font] :
                    elements \in SeqsUpTo(TJElements, MaxTJElements),
                    font \in 0..Len(TJFonts)}
    /\ ret = NotReturned
    /\ LayoutIdle /\ DecodeIdle /\ InterpIdle /\ EmitIdle

\* The TJ arm up to the test of the combined text.
ShowTJ ==
    /\ call.fn = "TJ"
    /\ ~ret.done
    /\ ret' = Returned(ShownText(Operation("TJ", <<ArrayObject(call.elements)>>),
                                 TJFontEnv(call.font)))
    /\ UNCHANGED <<call, layoutVars, decodeVars, interpVars, emitVars>>

TJNext == ShowTJ

SpecTJ == TJInit /\ [][TJNext]_vars

\* Ten times the threshold the description gives, in thousandths of an em:
\* 40% of the width of the space glyph, kept between 80 and 200, or 120.
DescribedThresholdTenths(font) ==
    IF font = NoWidthTable THEN 1200
    ELSE LET space_per_mille_x10 == (TJFonts[font].space_width * 10000) \div TJFonts[font].units_per_em
             forty_percent == (space_per_mille_x10 * 4) \div 10
         IN  Max(800, Min(2000, forty_percent))

\* The combined text the description gives after the first k elements, with
\* the positions of the spaces it inferred.
RECURSIVE DescribedCombine(_, _, _)
DescribedCombine(elements, k, font) ==
    IF k = 0 THEN [text |-> <<>>, inferred |-> {}]
    ELSE LET before == DescribedCombine(elements, k - 1, font)
             element == elements[k]
         IN  IF element.kind = "String"
             THEN [before EXCEPT !.text = @ \o element.bytes]
             ELSE IF /\ element.value * 10 < -DescribedThresholdTenths(font)
                     /\ before.text # <<>>
                     /\ before.text[Len(before.text)] # SPACE
                  THEN [text |-> Append(before.text, SPACE),
                        inferred |-> before.inferred \cup {Len(before.text) + 1}]
                  ELSE before

TJReturned == call.fn = "TJ" /\ ret.done

\* C20: the combined text of a TJ array is the one in which a number adds one
\* space exactly when it is below minus the threshold and the text so far is
\* neither empty nor ends with a space, after every prefix of the array; the
\* threshold is 40% of the space glyph's width in thousandths, kept within
\* 80 and 200, or 120 without a width table; no inferred space is the first
\* character and no two inferred spaces are adjacent.
C20_InferredSpaces ==
    TJReturned =>
        LET described == DescribedCombine(call.elements, Len(call.elements), call.font)
        IN  /\ ret.val = described.text
            /\ \A k \in 0..Len(call.elements) :
                   TJCombine(SubSeq(call.elements, 1, k), <<>>, TJFontEnv(call.font))
                       = DescribedCombine(call.elements, k, call.font).text
            /\ 1 \notin described.inferred
            /\ \A p \in described.inferred : p + 1 \notin described.inferred

\* With a space glyph of 278 thousandths the threshold is 111.2: -112 after
\* "A" adds a space, -111 does not, and a second -112 adds no second space.
C20_Witness ==
    /\ TJReturned
    /\ call.font = 3
    /\ call.elements = <<StringObject(<<65>>), IntegerObject(-112), IntegerObject(-112)>>
    /\ ret.val = <<65, SPACE>>
    /\ TJCombine(<<StringObject(<<65>>), IntegerObject(-111)>>, <<>>, TJFontEnv(3)) = <<65>>

----------------------------------------------------------------------------
(* ToUnicodeCMap::lookup on its own.                                        *)

MaxRanges == 2

\* Ranges as parse_bfrange stores them: an ordinary one, one that lands in
\* the surrogates, one that overlaps the first, one whose base is the largest
\* u32 and one whose base is the last code point.
RangePool ==
    {<<0, 255, 0, 97>>, <<0, 63, 0, 55296>>, <<32, 127, 0, 1000>>,
     <<0, 65535, 65535, 65535>>, <<0, 65535, 16, 65535>>}

ExactMaps == {EmptyFn, (36 :> <<102, 105>>), (66 :> <<65>>)}

CidInputs == {0, 36, 66, 255, 65535}

LookupInit ==
    /\ cid_cmap \in {ToUnicodeCMap(char_map, ranges) :
                        char_map \in ExactMaps, ranges \in SeqsUpTo(RangePool, MaxRanges)}
    /\ overflow_checks \in BOOLEAN
    /\ call \in {[fn |-> "lookup", cid |-> cid] : cid \in CidInputs}
    /\ ret = NotReturned
    /\ operand = <<>>
    /\ font_env = <<>>
    /\ decoded = <<>>
    /\ dec_stage = "idle"
    /\ LayoutIdle /\ InterpIdle /\ EmitIdle

\* One call of ToUnicodeCMap::lookup.
Lookup ==
    /\ call.fn = "lookup"
    /\ ~ret.done
    /\ ret' = Returned(lookup(cid_cmap, call.cid))
    /\ UNCHANGED <<call, layoutVars, decodeVars, interpVars, emitVars>>

LookupNext == Lookup

SpecLookup == LookupInit /\ [][LookupNext]_vars

Containing(ranges, cid) == {i \in 1..Len(ranges) : ranges[i][1] <= cid /\ cid <= ranges[i][2]}

FirstContaining(ranges, cid) ==
    CHOOSE i \in Containing(ranges, cid) : \A j \in Containing(ranges, cid) : i <= j

\* base + (cid - start) as a number, its upper and lower 16 bits apart.
BasePlusOffset(range, cid) ==
    LET lo == range[4] + (cid - range[1])
    IN  [hi |-> range[3] + lo \div U16, lo |-> lo % U16]

LookupReturned == call.fn = "lookup" /\ ret.done

\* C21: lookup returns the exact entry of the code when there is one;
\* otherwise the character base + (cid - start) of the first range, in the
\* order of insertion, that contains the code; None when no entry and no
\* range has the code; and it returns, for every base a range can have.
C21_LookupExactThenFirstRange ==
    LookupReturned =>
        /\ ~ret.val.panic
        /\ IF call.cid \in DOMAIN cid_cmap.char_map
           THEN ret.val = Some(cid_cmap.char_map[call.cid])
           ELSE IF Containing(cid_cmap.ranges, call.cid) # {}
           THEN LET sum == BasePlusOffset(
                               cid_cmap.ranges[FirstContaining(cid_cmap.ranges, call.cid)],
                               call.cid)
                IN  /\ sum.hi <= MAX_CHAR \div U16
                    /\ ret.val = Some(<<sum.hi * U16 + sum.lo>>)
           ELSE ret.val = None

----------------------------------------------------------------------------
(* compute_heading_tiers on the lines of small documents *)

MaxTierLines == 5

\* Sizes of which some are less than 0.5pt apart and some exactly 0.5pt.
TierSizePool == {120, 145, 148, 150, 155, 180, 240, 300}

\* One line per size, in the order given, each of one item.
LinesOfSizeSeq(sizes) ==
    [k \in 1..Len(sizes) |->
        TextLine(<<TextItem(Word, 1000, 8000 - 400 * k, 0, sizes[k], 1)>>, 8000 - 400 * k, 1)]

TiersInit ==
    /\ call \in {[fn |-> "compute_heading_tiers", sizes |-> sizes, base_size |-> base_size] :
                    sizes \in SeqsUpTo(TierSizePool, MaxTierLines), base_size \in HeaderBases}
    /\ ret = NotReturned
    /\ LayoutIdle /\ DecodeIdle /\ InterpIdle /\ EmitIdle

ComputeHeadingTiers ==
    /\ call.fn = "compute_heading_tiers"
    /\ ~ret.done
    /\ ret' = Returned(compute_heading_tiers(LinesOfSizeSeq(call.sizes), call.base_size))
    /\ UNCHANGED <<call, layoutVars, decodeVars, interpVars, emitVars>>

TiersNext == ComputeHeadingTiers

SpecTiers == TiersInit /\ [][TiersNext]_vars

TiersReturned == call.fn = "compute_heading_tiers" /\ ret.done

\* The sizes of the lines that are at least 1.2 times the body size.
QualifyingSizes(sizes, base_size) ==
    {sizes[k] : k \in {j \in 1..Len(sizes) : sizes[j] * 10 >= base_size * 12}}

\* C22: the tiers are at most 4, every tier is at least 0.5pt under the one
\* before it, every tier is the size of a line of at least 1.2 times the
\* body size, the greatest such size is the first tier, and a size that is
\* tier i gets heading level i.
C22_HeadingTiers ==
    TiersReturned =>
        LET tiers == ret.val
            qualifying == QualifyingSizes(call.sizes, call.base_size)
        IN  /\ Len(tiers) <= 4
            /\ \A i \in 1..Len(tiers) : \A j \in 1..Len(tiers) :
                   i < j => tiers[i] - tiers[j] >= 5
            /\ \A i \in 1..Len(tiers) : tiers[i] \in qualifying
            /\ qualifying # {} =>
                   tiers # <<>> /\ \A s \in qualifying : s <= tiers[1]
            /\ \A i \in 1..Len(tiers) :
                   detect_header_level(tiers[i], call.base_size, tiers) = i

\* Five sizes 0.5pt or more apart: the four largest are the tiers.
C22_Witness ==
    /\ TiersReturned
    /\ call.base_size = 100
    /\ call.sizes = <<120, 145, 150, 180, 300>>
    /\ ret.val = <<300, 180, 150, 145>>

----------------------------------------------------------------------------
(* The loop of to_markdown_from_lines, one line at a time *)

MaxLoopLines == 5

\* Lines 30pt apart, each of one item: a title of one word, a heading of
\* four words, a label of two letters, a line of sixteen words, a numbered
\* line, a caption, a subheading, and body lines.
SixteenWords == [i \in 1..31 |-> IF i % 2 = 1 THEN "a" ELSE " "]

LoopLinePool ==
    <<TextItem(<<"T", "i", "t", "l", "e">>, 1000, 8000, 0, 360, 1),
      TextItem(<<"A", " ", "b", " ", "c", " ", "d">>, 1000, 7700, 0, 300, 1),
      TextItem(<<"A", "b">>, 1000, 7400, 0, 240, 1),
      TextItem(SixteenWords, 1000, 7100, 0, 240, 1),
      TextItem(<<"1", ".", " ", "G", "o">>, 1000, 6800, 0, 180, 1),
      TextItem(<<"F", "i", "g", ".", " ", "1">>, 1000, 6500, 0, 200, 1),
      TextItem(<<"S", "u", "b", " ", "x">>, 1000, 6200, 0, 150, 1)>>

BodyLines ==
    [k \in 1..3 |-> TextItem(<<"b", "o", "d", "y">>, 1000, 5900 - 300 * k, 0, 100, 1)]

LoopLineInputs ==
    {[k \in 1..Len(its) |-> TextLine(<<its[k]>>, its[k].y, 1)] :
        its \in {PickFrom(LoopLinePool, S) \o BodyLines :
                    S \in {T \in SUBSET (1..Len(LoopLinePool)) : Cardinality(T) <= MaxLoopLines}}}

\* to_markdown_from_lines up to its loop: base size, merges, tiers, threshold.
LoopStart(ls, opts, most_common_size) ==
    LET base_size == UnwrapOr(opts.base_font_size, most_common_size)
        without_caps == merge_drop_caps(ls, base_size)
        heading_tiers == compute_heading_tiers(without_caps, base_size)
        merged == merge_heading_lines(without_caps, base_size, heading_tiers)
    IN  [fn |-> "to_markdown_from_lines", lines |-> merged,
         detect_headers |-> opts.detect_headers, detect_lists |-> opts.detect_lists,
         base_size |-> base_size, heading_tiers |-> heading_tiers,
         para_threshold |-> compute_paragraph_threshold(merged, base_size),
         k |-> 0, st |-> EmitState]

LoopInit ==
    /\ \E ls \in LoopLineInputs : \E h \in BOOLEAN : \E l \in BOOLEAN :
       \E most_common_size \in calculate_font_stats(ls) :
            call = LoopStart(ls, MarkdownOptions(h, l, None), most_common_size)
    /\ ret = NotReturned
    /\ LayoutIdle /\ DecodeIdle /\ InterpIdle /\ EmitIdle

LoopOptions == MarkdownOptions(call.detect_headers, call.detect_lists, None)

\* One turn of the loop.
EmitNextLine ==
    /\ call.fn = "to_markdown_from_lines"
    /\ call.k < Len(call.lines)
    /\ call' = [call EXCEPT
                  !.k = @ + 1,
                  !.st = EmitLine(@, call.lines[call.k + 1], LoopOptions, call.base_size,
                                  call.heading_tiers, call.para_threshold)]
    /\ UNCHANGED <<ret, layoutVars, decodeVars, interpVars, emitVars>>

\* After the loop the last paragraph is closed and the Markdown cleaned.
ReturnMarkdown ==
    /\ call.fn = "to_markdown_from_lines"
    /\ call.k = Len(call.lines)
    /\ ~ret.done
    /\ ret' = Returned(clean_markdown(CloseFinalParagraph(call.st)))
    /\ UNCHANGED <<call, layoutVars, decodeVars, interpVars, emitVars>>

LoopNext == EmitNextLine \/ ReturnMarkdown

SpecLoop == LoopInit /\ [][LoopNext]_vars

AtLoopLine == call.fn = "to_markdown_from_lines" /\ call.k < Len(call.lines)
LoopLine == call.lines[call.k + 1]
LoopLineText == Trim(text_plain(LoopLine))
LoopLineLevel ==
    detect_header_level(FirstFontSize(LoopLine, call.base_size), call.base_size,
                        call.heading_tiers)

\* The turn appends "#...# text" and a blank line to the output.
EmittedAsHeading ==
    \E level \in 1..4 :
        LET heading == Repeat("#", level) \o <<" ">> \o LoopLineText \o <<NL, NL>>
            after == call'.st.output
            before == call.st.output
        IN  /\ Len(after) >= Len(before) + Len(heading)
            /\ SubSeq(after, 1, Len(before)) = before
            /\ SubSeq(after, Len(after) - Len(heading) + 1, Len(after)) = heading

\* C23 as stated: a line is emitted as a heading only when it has 4 to 15
\* words, its size matches a tier and it is no caption and no list line.
C23_HeadingOnlyFourToFifteenWords ==
    [][AtLoopLine /\ EmittedAsHeading =>
            /\ WordCount(LoopLineText) >= 4
            /\ WordCount(LoopLineText) <= 15
            /\ TierOf(FirstFontSize(LoopLine, call.base_size), call.heading_tiers) # 0
            /\ ~is_caption_line(LoopLineText)
            /\ ~is_list_item(LoopLineText)]_vars

\* C23: a line is emitted as a heading exactly when header detection is on,
\* its text is no caption, is longer than 3 bytes and has at most 15 words,
\* and detect_header_level gives its first item's size a level; the line may
\* have fewer than 4 words and may be a list-item line.
C23_HeadingWhenLevelAndShort ==
    [][AtLoopLine =>
            (EmittedAsHeading <=>
                /\ call.detect_headers
                /\ ~is_caption_line(LoopLineText)
                /\ ByteLen(LoopLineText) > 3
                /\ WordCount(LoopLineText) <= 15
                /\ LoopLineLevel # 0)]_vars

\* With a body of 10pt the title of one word and the numbered line have been
\* emitted as headings of levels 1 and 2.
C23_Witness ==
    /\ call.fn = "to_markdown_from_lines"
    /\ call.k = 2
    /\ call.base_size = 100
    /\ call.st.output = <<"#", " ", "T", "i", "t", "l", "e", NL, NL,
                          "#", "#", " ", "1", ".", " ", "G", "o", NL, NL>>

----------------------------------------------------------------------------
(* The reading order of one column *)

MaxOrderItems == 5

\* Items of one page: two on one line, one 30pt below, three 60pt apart.
OrderPool ==
    {TextItem(Word, 1000, 8000, 0, 100, 1), TextItem(Word, 2000, 8000, 0, 100, 1),
     TextItem(Word, 1000, 7700, 0, 100, 1), TextItem(Word, 1000, 7400, 0, 100, 1),
     TextItem(Word, 1000, 6800, 0, 100, 1), TextItem(Word, 1000, 6200, 0, 100, 1)}

OrderInit ==
    /\ call \in {[fn |-> "group_single_column", items |-> its] :
                    its \in SeqsUpTo(OrderPool, MaxOrderItems) \ {<<>>}}
    /\ ret = NotReturned
    /\ LayoutIdle /\ DecodeIdle /\ InterpIdle /\ EmitIdle

GroupSingleColumn ==
    /\ call.fn = "group_single_column"
    /\ ~ret.done
    /\ ret' = Returned(group_single_column(call.items))
    /\ UNCHANGED <<call, layoutVars, decodeVars, interpVars, emitVars>>

OrderNext == GroupSingleColumn

SpecOrder == OrderInit /\ [][OrderNext]_vars

OrderReturned == call.fn = "group_single_column" /\ ret.done

\* The Y-deltas between consecutive items that exceed 50pt, and the upward
\* ones among them.
LargeJumps(its) ==
    {i \in 1..(Len(its) - 1) : Abs(its[i + 1].y - its[i].y) > 500}
UpwardJumps(its) == {i \in LargeJumps(its) : its[i + 1].y > its[i].y}

\* Item j comes before item i when sorted by Y descending, then X ascending,
\* equal items staying in stream order.
ComesBefore(its, j, i) ==
    \/ its[j].y > its[i].y
    \/ its[j].y = its[i].y /\ its[j].x < its[i].x
    \/ its[j].y = its[i].y /\ its[j].x = its[i].x /\ j < i

SortedByYThenX(its) ==
    [p \in 1..Len(its) |->
        its[CHOOSE i \in 1..Len(its) :
                Cardinality({j \in 1..Len(its) : ComesBefore(its, j, i)}) = p - 1]]

\* The lines of the items walked in the given order.
LinesInOrder(its) ==
    LET grouped == GroupLoop(its, <<>>)
    IN  [k \in 1..Len(grouped) |-> SortLineItems(grouped[k])]

ManyUpwardJumps(its) ==
    /\ Cardinality(LargeJumps(its)) >= 3
    /\ Cardinality(UpwardJumps(its)) * 10 > 4 * Cardinality(LargeJumps(its))

\* C24 as stated: the items are walked sorted by Y descending and X
\* ascending exactly when at least 3 Y-deltas exceed 50pt and more than 40%
\* of them are upward, and in stream order otherwise.
C24_SortedOnManyUpwardJumps ==
    OrderReturned =>
        ret.val = IF ManyUpwardJumps(call.items)
                  THEN LinesInOrder(SortedByYThenX(call.items))
                  ELSE LinesInOrder(call.items)

\* C24: a column is walked sorted by Y descending and X ascending exactly
\* when it has at least 5 items, at least 3 Y-deltas exceed 50pt and more
\* than 40% of them are upward; in stream order otherwise.
C24_SortedOnManyUpwardJumpsOfFive ==
    OrderReturned =>
        ret.val = IF Len(call.items) >= 5 /\ ManyUpwardJumps(call.items)
                  THEN LinesInOrder(SortedByYThenX(call.items))
                  ELSE LinesInOrder(call.items)

\* Five items with two jumps up and one down come back top to bottom.
C24_Witness ==
    /\ OrderReturned
    /\ Len(call.items) = 5
    /\ [k \in 1..5 |-> call.items[k].y] = <<6800, 8000, 6200, 7400, 7700>>
    /\ Len(ret.val) = 5
    /\ [k \in 1..5 |-> ret.val[k].y] = <<8000, 7700, 7400, 6800, 6200>>
    /\ ret.val # LinesInOrder(call.items)

----------------------------------------------------------------------------
(* Rendering a table *)

MaxGridRows == 3

\* str::find of one character: the first index holding it, 0 when absent.
FindChar(t, c) ==
    IF \E i \in 1..Len(t) : t[i] = c
    THEN CHOOSE i \in 1..Len(t) : t[i] = c /\ \A j \in 1..(i - 1) : t[j] # c
    ELSE 0

AllAsciiDigits(t) == \A i \in 1..Len(t) : IsAsciiDigit(t[i])

is_footnote_row(text) ==
    LET trimmed   == Trim(text)
        inside    == Tail(trimmed)
        close_idx == FindChar(inside, ")")
        paren_idx == FindChar(trimmed, ")")
        lower     == ToLowercase(trimmed)
    IN  \/ /\ trimmed # <<>> /\ Head(trimmed) = "(" /\ Len(trimmed) >= 2
           /\ close_idx > 0
           /\ AllAsciiDigits(SubSeq(inside, 1, close_idx - 1))
        \/ /\ Len(trimmed) >= 2
           /\ paren_idx > 1
           /\ AllAsciiDigits(SubSeq(trimmed, 1, paren_idx - 1))
        \/ StartsWith(lower, <<"n", "o", "t", "e", ":">>)
        \/ StartsWith(lower, <<"n", "o", "t", "e", "s", ":">>)

\* The trimmed, non-empty cells of a row joined by single spaces.
RECURSIVE JoinFilled(_)
JoinFilled(row) ==
    IF row = <<>> THEN <<>>
    ELSE LET c    == Trim(Head(row))
             rest == JoinFilled(Tail(row))
         IN  IF c = <<>> THEN rest
             ELSE IF rest = <<>> THEN c
             ELSE c \o <<" ">> \o rest

MergeIntoRow(prev_row, row) ==
    [col_idx \in 1..Len(prev_row) |->
        LET cell_text == IF col_idx <= Len(row) THEN Trim(row[col_idx]) ELSE <<>>
        IN  IF cell_text = <<>> THEN prev_row[col_idx]
            ELSE IF prev_row[col_idx] = <<>> THEN cell_text
            ELSE prev_row[col_idx] \o <<" ">> \o cell_text]

RECURSIVE CleanLoop(_, _, _)
CleanLoop(cells, cleaned, footnotes) ==
    IF cells = <<>> THEN [cleaned |-> cleaned, footnotes |-> footnotes]
    ELSE LET row        == Head(cells)
             first_cell == IF row = <<>> THEN <<>> ELSE Trim(row[1])
             continues ==
                 /\ first_cell = <<>>
                 /\ \E i \in 2..Len(row) : Trim(row[i]) # <<>>
                 /\ cleaned # <<>>
         IN  IF \A i \in 1..Len(row) : Trim(row[i]) = <<>>
             THEN CleanLoop(Tail(cells), cleaned, footnotes)
             ELSE IF is_footnote_row(first_cell)
             THEN CleanLoop(Tail(cells), cleaned, Append(footnotes, JoinFilled(row)))
             ELSE IF continues
             THEN CleanLoop(Tail(cells),
                            [cleaned EXCEPT ![Len(cleaned)] = MergeIntoRow(@, row)],
                            footnotes)
             ELSE CleanLoop(Tail(cells),
                            Append(cleaned, [i \in 1..Len(row) |-> Trim(row[i])]),
                            footnotes)

clean_table_cells(cells) == CleanLoop(cells, <<>>, <<>>)

\* format!(" {:width$} |"): the cell padded on the right to the column width.
PadCell(cell, width) ==
    <<" ">> \o cell \o Repeat(" ", Max(width - Len(cell), 0)) \o <<" ", "|">>

RECURSIVE MaxCellLen(_, _)
MaxCellLen(rows, col) ==
    IF rows = <<>> THEN 0
    ELSE Max(IF col <= Len(Head(rows)) THEN Len(Head(rows)[col]) ELSE 0,
             MaxCellLen(Tail(rows), col))

table_to_markdown(cells) ==
    IF cells = <<>> \/ cells[1] = <<>> THEN <<>>
    ELSE LET c == clean_table_cells(cells)
         IN  IF c.cleaned = <<>> THEN <<>>
             ELSE LET num_cols   == Len(c.cleaned[1])
                      col_widths == [col \in 1..num_cols |->
                                        Max(MaxCellLen(c.cleaned, col), 3)]
                      RowLine(row) ==
                          <<"|">> \o Concat([i \in 1..Len(row) |->
                                               PadCell(row[i], col_widths[i])])
                                  \o <<NL>>
                      Separator ==
                          <<"|">> \o Concat([i \in 1..num_cols |->
                                               <<" ">> \o Repeat("-", col_widths[i])
                                                       \o <<" ", "|">>])
                                  \o <<NL>>
                  IN  Concat([k \in 1..Len(c.cleaned) |->
                                 RowLine(c.cleaned[k])
                                     \o (IF k = 1 THEN Separator ELSE <<>>)])
                      \o (IF c.footnotes = <<>> THEN <<>>
                          ELSE <<NL>> \o Concat([k \in 1..Len(c.footnotes) |->
                                                   c.footnotes[k] \o <<NL>>]))

\* Rows of two cells: the first cell empty, blank, a label or footnote-shaped.
FirstCellPool ==
    {<<>>, <<" ">>, <<"a">>, <<"(", "1", ")">>, <<"2", ")">>,
     <<"N", "o", "t", "e", ":">>}
OtherCellPool == {<<>>, <<"b">>, <<" ", "c", " ">>}
GridRowPool == {<<f, o>> : f \in FirstCellPool, o \in OtherCellPool}

RenderInit ==
    /\ call \in {[fn |-> "table_to_markdown", cells |-> cells] :
                    cells \in SeqsUpTo(GridRowPool, MaxGridRows) \ {<<>>}}
    /\ ret = NotReturned
    /\ LayoutIdle /\ DecodeIdle /\ InterpIdle /\ EmitIdle

TableToMarkdown ==
    /\ call.fn = "table_to_markdown"
    /\ ~ret.done
    /\ ret' = Returned(table_to_markdown(call.cells))
    /\ UNCHANGED <<call, layoutVars, decodeVars, interpVars, emitVars>>

RenderNext == TableToMarkdown

SpecRender == RenderInit /\ [][RenderNext]_vars

RenderReturned == call.fn = "table_to_markdown" /\ ret.done

\* The pieces of a text between occurrences of one character.
RECURSIVE SplitOn(_, _)
SplitOn(t, c) ==
    LET i == FindChar(t, c)
    IN  IF i = 0 THEN <<t>>
        ELSE <<SubSeq(t, 1, i - 1)>> \o SplitOn(SubSeq(t, i + 1, Len(t)), c)

\* The lines of the rendered text, each ended by a newline.
RenderedLines(md) ==
    LET pieces == SplitOn(md, NL)
    IN  SubSeq(pieces, 1, Len(pieces) - 1)

IsRowLine(line) == line # <<>> /\ Head(line) = "|"

\* The cells of a table line, without the padding.
CellsOfLine(line) ==
    LET pieces == SplitOn(line, "|")
    IN  [i \in 1..(Len(pieces) - 2) |-> Trim(pieces[i + 1])]

IsSeparatorLine(line) ==
    /\ IsRowLine(line)
    /\ \A i \in 1..Len(CellsOfLine(line)) :
          LET cell == CellsOfLine(line)[i]
          IN  Len(cell) >= 3 /\ \A k \in 1..Len(cell) : cell[k] = "-"

RowIsEmpty(row) == \A i \in 1..Len(row) : Trim(row[i]) = <<>>
RowIsFootnote(row) ==
    ~RowIsEmpty(row) /\ row # <<>> /\ is_footnote_row(Trim(row[1]))
RowIsTabular(row) == ~RowIsEmpty(row) /\ ~RowIsFootnote(row)

\* A row is rendered as its own table row when its first cell is filled, or
\* when no table row precedes it that it could be merged into.
RowIsOwn(cells, i) ==
    /\ RowIsTabular(cells[i])
    /\ \/ Trim(cells[i][1]) # <<>>
       \/ \A j \in 1..(i - 1) : ~RowIsTabular(cells[j])

\* The rows merged into own row i: those after it up to the next own row.
MergedInto(cells, i) ==
    {j \in (i + 1)..Len(cells) :
        /\ RowIsTabular(cells[j])
        /\ \A k \in (i + 1)..j : ~RowIsOwn(cells, k)}

RECURSIVE JoinColumn(_, _, _)
JoinColumn(cells, rows, col) ==
    IF rows = {} THEN <<>>
    ELSE LET j    == CHOOSE r \in rows : \A q \in rows : r <= q
             c    == Trim(cells[j][col])
             rest == JoinColumn(cells, rows \ {j}, col)
         IN  IF c = <<>> THEN rest
             ELSE IF rest = <<>> THEN c
             ELSE c \o <<" ">> \o rest

OwnRows(cells) ==
    LET idx == {i \in 1..Len(cells) : RowIsOwn(cells, i)}
    IN  [p \in 1..Cardinality(idx) |->
            CHOOSE i \in idx : Cardinality({j \in idx : j < i}) = p - 1]

DescribedRows(cells) ==
    [p \in 1..Len(OwnRows(cells)) |->
        LET i == OwnRows(cells)[p]
        IN  [col \in 1..Len(cells[i]) |->
                JoinColumn(cells, {i} \cup MergedInto(cells, i), col)]]

DescribedFootnotes(cells) ==
    LET idx == {i \in 1..Len(cells) : RowIsFootnote(cells[i])}
    IN  [p \in 1..Cardinality(idx) |->
            JoinFilled(cells[CHOOSE i \in idx :
                                 Cardinality({j \in idx : j < i}) = p - 1])]

\* The table rows, the separators and the footnote lines read back from the
\* rendered text.
RowLinesOf(md) ==
    SelectSeq(RenderedLines(md), LAMBDA l : IsRowLine(l) /\ ~IsSeparatorLine(l))
FootnoteLinesOf(md) ==
    SelectSeq(RenderedLines(md), LAMBDA l : l # <<>> /\ ~IsRowLine(l))

RowsConserved(cells, md) ==
    /\ [k \in 1..Len(RowLinesOf(md)) |-> CellsOfLine(RowLinesOf(md)[k])]
           = DescribedRows(cells)
    /\ FootnoteLinesOf(md) = DescribedFootnotes(cells)
    /\ \A i, j \in 1..Len(RenderedLines(md)) :
          (IsRowLine(RenderedLines(md)[i]) /\ ~IsRowLine(RenderedLines(md)[j])) => i < j

OneSeparator(md) ==
    LET ls == RenderedLines(md)
    IN  /\ Cardinality({i \in 1..Len(ls) : IsSeparatorLine(ls[i])})
               = (IF DescribedRows(call.cells) = <<>> THEN 0 ELSE 1)
        /\ \A i \in 1..Len(ls) : IsSeparatorLine(ls[i]) => i = 2
        /\ \A i, j \in 1..Len(RowLinesOf(md)) :
              Len(CellsOfLine(RowLinesOf(md)[i])) = Len(CellsOfLine(RowLinesOf(md)[j]))

\* C25: every non-empty row of the grid is rendered exactly once, as its own
\* table row, merged into the preceding rendered row, or as a footnote line
\* after all table rows; one separator follows the first rendered row and
\* all rendered rows have the same number of cells.
C25_RowsConserved ==
    RenderReturned => RowsConserved(call.cells, ret.val) /\ OneSeparator(ret.val)

----------------------------------------------------------------------------
(* to_markdown_from_items with tables and images *)

MaxDocPages == 2

\* calculate_font_stats_from_items: the sizes max_by_key can return.
calculate_font_stats_from_items(its) ==
    LET sizes == {its[k].font_size : k \in {j \in 1..Len(its) : its[j].font_size >= 90}}
        CountOf(s) == Cardinality({k \in 1..Len(its) : its[k].font_size = s})
    IN  IF sizes = {} THEN {DEFAULT_MOST_COMMON_SIZE}
        ELSE {s \in sizes : \A t \in sizes : CountOf(t) <= CountOf(s)}

\* The positions in text_items of the items of one page, in stream order.
PagePositions(its, page) ==
    LET at == {k \in 1..Len(its) : its[k].page = page}
    IN  [n \in 1..Cardinality(at) |->
            CHOOSE k \in at : Cardinality({j \in at : j < k}) = n - 1]

PageItemsOf(its, page) ==
    [n \in 1..Len(PagePositions(its, page)) |-> its[PagePositions(its, page)[n]]]

\* The position in text_items of the item with index idx (from 0) on its
\* page, 0 when the page has no such item.
GlobalIndex(its, page, idx) ==
    IF idx + 1 <= Len(PagePositions(its, page))
    THEN PagePositions(its, page)[idx + 1] ELSE 0

\* img.text without "[Image: " and "]", or img.text itself.
ImageName(text) ==
    LET prefix == <<"[", "I", "m", "a", "g", "e", ":", " ">>
    IN  IF StartsWith(text, prefix)
           /\ Len(text) > Len(prefix) /\ text[Len(text)] = "]"
        THEN SubSeq(text, Len(prefix) + 1, Len(text) - 1)
        ELSE IF text = prefix \o <<"]">> THEN <<>>
        ELSE text

ImageMarkdown(img) ==
    <<"!", "[", "I", "m", "a", "g", "e", ":", " ">> \o ImageName(img.text)
        \o <<"]", "(", "i", "m", "a", "g", "e", ")", NL>>

\* The (y, markdown) entries of one page's tables and the positions they
\* claim; y is a fraction, as the row positions are.
TableEntries(tables) ==
    [k \in 1..Len(tables) |->
        [y  |-> IF tables[k].rows = <<>> THEN Rat(0, 1) ELSE tables[k].rows[1],
         md |-> table_to_markdown(tables[k].cells)]]

ClaimedPositions(its, page, tables) ==
    UNION {{GlobalIndex(its, page, tables[k].item_indices[n]) :
                n \in 1..Len(tables[k].item_indices)} : k \in 1..Len(tables)} \ {0}

\* The inserts of a page that are not yet written and that the line has
\* passed (all of them when the page is left).
PendingInserts(entries, page, inserted, line_y, leaving) ==
    {idx \in 1..Len(entries) :
        /\ <<page, idx>> \notin inserted
        /\ leaving \/ RatLess(Rat(line_y, 1), entries[idx].y)}

RECURSIVE InsertEntries(_, _, _)
InsertEntries(st, entries, pending) ==
    IF pending = {} THEN st
    ELSE LET idx == CHOOSE i \in pending : \A j \in pending : i <= j
         IN  InsertEntries(
                [CloseParagraph(st) EXCEPT
                    !.output = @ \o <<NL>> \o entries[idx].md \o <<NL>>],
                entries, pending \ {idx})

EntriesOfPage(by_page, page) ==
    IF page \in DOMAIN by_page THEN by_page[page] ELSE <<>>

\* The state of the loop: the emitter state and the two inserted sets.
InsertState == [st |-> EmitState, inserted_tables |-> {}, inserted_images |-> {}]

\* Tables, then images, of one page written into the output.
InsertBoth(s, page_tables, page_images, page, line_y, leaving) ==
    LET tables == EntriesOfPage(page_tables, page)
        images == EntriesOfPage(page_images, page)
        pt == PendingInserts(tables, page, s.inserted_tables, line_y, leaving)
        pi == PendingInserts(images, page, s.inserted_images, line_y, leaving)
    IN  [st |-> InsertEntries(InsertEntries(s.st, tables, pt), images, pi),
         inserted_tables |-> s.inserted_tables \cup {<<page, idx>> : idx \in pt},
         inserted_images |-> s.inserted_images \cup {<<page, idx>> : idx \in pi}]

\* One line of the loop: the page break with the inserts left on the page,
\* the inserts the line has passed, then the line itself.
EmitLineWithInserts(s, line, opts, base_size, heading_tiers, para_threshold,
                    page_tables, page_images) ==
    LET left == IF line.page # s.st.current_page /\ s.st.current_page > 0
                THEN InsertBoth(s, page_tables, page_images, s.st.current_page, 0, TRUE)
                ELSE s
        turned == [left EXCEPT !.st = PageBreakWithTables(@, line)]
        passed == InsertBoth(turned, page_tables, page_images, line.page, line.y, FALSE)
    IN  [passed EXCEPT !.st =
            EmitText(ParagraphBreak(@, line, para_threshold),
                     line, Trim(text_plain(line)), opts, base_size, heading_tiers)]

RECURSIVE EmitLoopWithInserts(_, _, _, _, _, _, _, _)
EmitLoopWithInserts(ls, k, opts, base_size, heading_tiers, para_threshold,
                    page_tables, page_images) ==
    IF k = 0 THEN InsertState
    ELSE EmitLineWithInserts(
            EmitLoopWithInserts(ls, k - 1, opts, base_size, heading_tiers,
                                para_threshold, page_tables, page_images),
            ls[k], opts, base_size, heading_tiers, para_threshold,
            page_tables, page_images)

\* After the loop: the inserts left on the page of the last line.
EmitWithInserts(ls, opts, base_size, heading_tiers, page_tables, page_images) ==
    LET s == EmitLoopWithInserts(ls, Len(ls), opts, base_size, heading_tiers,
                                 compute_paragraph_threshold(ls, base_size),
                                 page_tables, page_images)
    IN  clean_markdown(CloseFinalParagraph(
            InsertBoth(s, page_tables, page_images, s.st.current_page, 0, TRUE).st))

\* to_markdown_from_lines_with_tables_and_images with its two maps.
ToMarkdownWithInserts(ls, opts, most_common_size, page_tables, page_images) ==
    LET base_size == UnwrapOr(opts.base_font_size, most_common_size)
        merged    == merge_drop_caps(ls, base_size)
        tiers     == compute_heading_tiers(merged, base_size)
    IN  IF /\ ls = <<>>
           /\ \A p \in DOMAIN page_tables : page_tables[p] = <<>>
           /\ \A p \in DOMAIN page_images : page_images[p] = <<>>
        THEN <<>>
        ELSE EmitWithInserts(merge_heading_lines(merged, base_size, tiers),
                             opts, base_size, tiers, page_tables, page_images)

\* The items whose position is not among the dropped ones, in stream order.
WithoutPositions(its, dropped) ==
    LET kept == (1..Len(its)) \ dropped
    IN  [n \in 1..Cardinality(kept) |->
            its[CHOOSE k \in kept : Cardinality({j \in kept : j < k}) = n - 1]]

PagesOf(its) == {its[k].page : k \in 1..Len(its)}

\* The images that are kept, as the (y, markdown) entries of their pages.
PageImages(image_items, include_images) ==
    LET images == IF include_images THEN image_items ELSE <<>>
    IN  [p \in PagesOf(images) |->
            [n \in 1..Len(PageItemsOf(images, p)) |->
                [y  |-> Rat(PageItemsOf(images, p)[n].y, 1),
                 md |-> ImageMarkdown(PageItemsOf(images, p)[n])]]]

\* pages.sort(); pages.dedup();
SortedPages(its) == Ascending(PagesOf(its))

OnPage(its, p) == [k \in 1..Len(its) |-> [its[k] EXCEPT !.page = p]]

\* What a page holds: a 3x3 grid of 8pt numbers, two lines of 10pt text, a
\* line of text above and below the grid, a form label above a grid with
\* rows 12pt or 20pt apart, or no text; with or without an image in the
\* middle of the page.
DocPageKinds == {"grid", "text", "both", "form12", "form20", "none"}

FormLabel(p) == TextItem(<<"N", "a", "m", "e", ":">>, 1000, 7000, 300, 80, p)

FormPage(row_pitch, p) ==
    <<FormLabel(p)>> \o OnPage(GridBlock(3, 800, row_pitch, 80, 7000 - row_pitch), p)

DocPageText(kind, p) ==
    CASE kind = "grid" -> OnPage(GridBlock(3, 800, 200, 80, 7000), p)
      [] kind = "text" ->
            [k \in 1..2 |-> TextItem(<<"t", "e", "x", "t">>, 1000, 7000 - 140 * k, 200, 100, p)]
      [] kind = "both" ->
            OnPage(GridBlock(3, 800, 200, 80, 7000), p)
                \o <<TextItem(<<"t", "o", "p">>, 1000, 7400, 200, 100, p),
                     TextItem(<<"e", "n", "d">>, 1000, 5800, 200, 100, p)>>
      [] kind = "form12" -> FormPage(120, p)
      [] kind = "form20" -> FormPage(200, p)
      [] OTHER -> <<>>

ImageItem(name, y, p) ==
    [text |-> <<"[", "I", "m", "a", "g", "e", ":", " ">> \o name \o <<"]">>,
     y |-> y, page |-> p, item_type |-> "Image"]

DocPageImages(with_image, p) ==
    IF with_image THEN <<ImageItem(<<"I", "m", "0">>, 6500, p)>> ELSE <<>>

DocPages == {[kind |-> k, image |-> i] : k \in DocPageKinds, i \in BOOLEAN}

RECURSIVE DocText(_)
DocText(pages) ==
    IF pages = <<>> THEN <<>>
    ELSE DocText(SubSeq(pages, 1, Len(pages) - 1))
            \o DocPageText(pages[Len(pages)].kind, Len(pages))

RECURSIVE DocImages(_)
DocImages(pages) ==
    IF pages = <<>> THEN <<>>
    ELSE DocImages(SubSeq(pages, 1, Len(pages) - 1))
            \o DocPageImages(pages[Len(pages)].image, Len(pages))

\* The call starts at the loop over the pages, page_items being the items of
\* the first page; base_size is what the font statistics of the items came to.
InsertsStart(pages, include_images, base_size) ==
    [fn |-> "to_markdown_from_items", pages |-> pages,
     items |-> DocText(pages), images |-> DocImages(pages),
     include_images |-> include_images, base_size |-> base_size,
     stage |-> IF DocText(pages) = <<>> THEN "group" ELSE "detect",
     page |-> 1,
     page_items |-> IF DocText(pages) = <<>> THEN <<>>
                    ELSE PageItemsOf(DocText(pages), SortedPages(DocText(pages))[1]),
     tables |-> <<>>, page_tables |-> <<>>,
     page_images |-> PageImages(DocImages(pages), include_images),
     table_items |-> {}, lines |-> <<>>]

InsertsInit ==
    /\ call \in UNION {{InsertsStart(pages, i, b) :
                            i \in BOOLEAN,
                            b \in calculate_font_stats_from_items(DocText(pages))} :
                        pages \in SeqsUpTo(DocPages, MaxDocPages) \ {<<>>}}
    /\ ret = NotReturned
    /\ LayoutIdle /\ DecodeIdle /\ InterpIdle /\ EmitIdle

\* One turn of the loop over the pages: the tables of the page are detected,
\* their items marked and their Markdown stored.
DetectPageTables ==
    /\ call.fn = "to_markdown_from_items"
    /\ call.stage = "detect"
    /\ \E tables \in detect_tables(call.page_items, call.base_size) :
          LET pages == SortedPages(call.items)
              page  == pages[call.page]
              last  == call.page = Len(pages)
          IN  call' = [call EXCEPT
                  !.tables = Append(@, tables),
                  !.table_items = @ \cup ClaimedPositions(call.items, page, tables),
                  !.page_tables = IF tables = <<>> THEN @
                                  ELSE [q \in DOMAIN @ \cup {page} |->
                                           IF q = page THEN TableEntries(tables) ELSE @[q]],
                  !.page = IF last THEN @ ELSE @ + 1,
                  !.page_items = IF last THEN <<>>
                                 ELSE PageItemsOf(call.items, pages[call.page + 1]),
                  !.stage = IF last THEN "group" ELSE "detect"]
    /\ UNCHANGED <<ret, layoutVars, decodeVars, interpVars, emitVars>>

\* The items that no table claimed are grouped into lines.
GroupUnclaimed ==
    /\ call.fn = "to_markdown_from_items"
    /\ call.stage = "group"
    /\ call' = [call EXCEPT
           !.lines = group_into_lines(WithoutPositions(call.items, call.table_items)),
           !.stage = "emit"]
    /\ UNCHANGED <<ret, layoutVars, decodeVars, interpVars, emitVars>>

\* to_markdown_from_lines_with_tables_and_images on the lines and the maps;
\* no items at all return the empty text at once.
EmitDocument ==
    /\ call.fn = "to_markdown_from_items"
    /\ call.stage = "emit"
    /\ \E size \in calculate_font_stats(call.lines) :
          ret' = Returned(IF call.items = <<>> /\ call.images = <<>> THEN <<>>
                          ELSE ToMarkdownWithInserts(call.lines, DefaultOptions, size,
                                                     call.page_tables, call.page_images))
    /\ call' = [call EXCEPT !.stage = "done"]
    /\ UNCHANGED <<layoutVars, decodeVars, interpVars, emitVars>>

InsertsNext == DetectPageTables \/ GroupUnclaimed \/ EmitDocument

SpecInserts == InsertsInit /\ [][InsertsNext]_vars

InsertsReturned == call.fn = "to_markdown_from_items" /\ ret.done

\* How many times a text occurs in another.
Occurrences(hay, needle) ==
    Cardinality({i \in 1..(Len(hay) - Len(needle) + 1) :
                    SubSeq(hay, i, i + Len(needle) - 1) = needle})

\* The entries of a map that carry the given Markdown.
EntriesWith(by_page, md) ==
    {<<p, idx>> \in UNION {{p} \X (1..Len(by_page[p])) : p \in DOMAIN by_page} :
        by_page[p][idx].md = md}

EveryEntryOnce(by_page, markdown) ==
    \A p \in DOMAIN by_page : \A idx \in 1..Len(by_page[p]) :
        Occurrences(markdown, by_page[p][idx].md)
            = Cardinality(EntriesWith(by_page, by_page[p][idx].md))

\* C26: every table detected on any page, and every image placeholder,
\* occurs exactly once in the Markdown that to_markdown_from_items returns,
\* also for a page that contributes no line and for a document without lines.
C26_InsertsAppearOnce ==
    InsertsReturned =>
        /\ EveryEntryOnce(call.page_tables, ret.val)
        /\ EveryEntryOnce(call.page_images, ret.val)

\* The tables detected on the page of item k.
TablesOfItemPage(k) ==
    LET pages == SortedPages(call.items)
    IN  call.tables[CHOOSE n \in 1..Len(pages) : pages[n] = call.items[k].page]

\* The text of item k was placed in a cell of a table of its page.
InTableCell(k) ==
    \E t \in 1..Len(TablesOfItemPage(k)) :
       \E r \in 1..Len(TablesOfItemPage(k)[t].cells) :
          \E c \in 1..Len(TablesOfItemPage(k)[t].cells[r]) :
             Contains(TablesOfItemPage(k)[t].cells[r][c], Trim(call.items[k].text))

\* Item k was handed to group_into_lines.
InOrdinaryText(k) == k \notin call.table_items

\* C27: an item is removed from ordinary line grouping exactly when its text
\* was placed in a cell of a kept table row, so that no item is both in a
\* table and in the ordinary text and none is in neither, also when leading
\* form rows are trimmed from a table whose rows are less than 15pt apart.
C27_ClaimedIffInTable ==
    InsertsReturned =>
        \A k \in 1..Len(call.items) : InTableCell(k) <=> ~InOrdinaryText(k)

----------------------------------------------------------------------------
(* The list arm of the loop with tables and images *)

MaxListLines == 4

\* Lines 14pt apart on one page, each of one 10pt item: a list item, a line
\* under the text of a list item, a caption, a line far to the right, and a
\* 24pt heading.
ListLineKinds == {"item", "under", "caption", "right", "head"}

ListLine(kind, n) ==
    LET y == 7000 - 140 * n
        item == CASE kind = "item" -> TextItem(<<"-", " ", "o", "n", "e">>, 1000, y, 300, 100, 1)
                  [] kind = "under" -> TextItem(<<"m", "o", "r", "e">>, 1100, y, 300, 100, 1)
                  [] kind = "caption" ->
                        TextItem(<<"F", "i", "g", "u", "r", "e", " ", "1">>, 1000, y, 300, 100, 1)
                  [] kind = "right" -> TextItem(<<"f", "a", "r">>, 3000, y, 300, 100, 1)
                  [] OTHER -> TextItem(<<"H", "e", "a", "d">>, 1000, y, 300, 240, 1)
    IN  TextLine(<<item>>, y, 1)

ListLinesOf(kinds) == [n \in 1..Len(kinds) |-> ListLine(kinds[n], n)]

\* A table of one cell and an image, each between the first and the second line.
ListTable ==
    [y |-> Rat(6800, 1),
     md |-> <<"|", " ", "a", " ", " ", " ", "|", NL, "|", " ", "-", "-", "-", " ", "|", NL>>]
ListImage ==
    [y |-> Rat(6800, 1),
     md |-> <<"!", "[", "I", "m", "a", "g", "e", ":", " ", "I", "m", "0", "]",
              "(", "i", "m", "a", "g", "e", ")", NL>>]

\* to_markdown_from_lines_with_tables_and_images up to its loop.
ListStart(ls, opts, most_common_size, page_tables, page_images) ==
    LET base_size == UnwrapOr(opts.base_font_size, most_common_size)
        without_caps == merge_drop_caps(ls, base_size)
        heading_tiers == compute_heading_tiers(without_caps, base_size)
        merged == merge_heading_lines(without_caps, base_size, heading_tiers)
    IN  [fn |-> "to_markdown_from_lines_with_tables_and_images", lines |-> merged,
         detect_headers |-> opts.detect_headers, detect_lists |-> opts.detect_lists,
         base_size |-> base_size, heading_tiers |-> heading_tiers,
         para_threshold |-> compute_paragraph_threshold(merged, base_size),
         page_tables |-> page_tables, page_images |-> page_images,
         k |-> 0, s |-> InsertState]

ListInit ==
    /\ \E kinds \in SeqsUpTo(ListLineKinds, MaxListLines) \ {<<>>} :
       \E l \in BOOLEAN : \E with_table \in BOOLEAN : \E with_image \in BOOLEAN :
       \E most_common_size \in calculate_font_stats(ListLinesOf(kinds)) :
            call = ListStart(ListLinesOf(kinds), MarkdownOptions(TRUE, l, None),
                             most_common_size,
                             IF with_table THEN [p \in {1} |-> <<ListTable>>] ELSE <<>>,
                             IF with_image THEN [p \in {1} |-> <<ListImage>>] ELSE <<>>)
    /\ ret = NotReturned
    /\ LayoutIdle /\ DecodeIdle /\ InterpIdle /\ EmitIdle

\* One turn of the loop.
EmitNextWithInserts ==
    /\ call.fn = "to_markdown_from_lines_with_tables_and_images"
    /\ call.k < Len(call.lines)
    /\ call' = [call EXCEPT
                  !.k = @ + 1,
                  !.s = EmitLineWithInserts(@, call.lines[call.k + 1], LoopOptions,
                                            call.base_size, call.heading_tiers,
                                            call.para_threshold,
                                            call.page_tables, call.page_images)]
    /\ UNCHANGED <<ret, layoutVars, decodeVars, interpVars, emitVars>>

\* After the loop: the inserts left on the last page, the last paragraph
\* closed, the Markdown cleaned.
ReturnWithInserts ==
    /\ call.fn = "to_markdown_from_lines_with_tables_and_images"
    /\ call.k = Len(call.lines)
    /\ ~ret.done
    /\ ret' = Returned(clean_markdown(CloseFinalParagraph(
                  InsertBoth(call.s, call.page_tables, call.page_images,
                             call.s.st.current_page, 0, TRUE).st)))
    /\ UNCHANGED <<call, layoutVars, decodeVars, interpVars, emitVars>>

ListNext == EmitNextWithInserts \/ ReturnWithInserts

SpecList == ListInit /\ [][ListNext]_vars

AtListLine ==
    call.fn = "to_markdown_from_lines_with_tables_and_images" /\ call.k < Len(call.lines)

TextOfLine(n) == Trim(text_plain(call.lines[n]))

\* The turn joined its line to the output before it: the output now ends
\* with a space, the text of the line and a newline.
JoinedToPrevious ==
    LET after == call'.s.st.output
        joined == <<" ">> \o TextOfLine(call.k + 1) \o <<NL>>
    IN  /\ Len(after) >= Len(joined)
        /\ SubSeq(after, Len(after) - Len(joined) + 1, Len(after)) = joined

\* The last line of a text that ends with a newline.
LastLineOf(t) ==
    LET body == SubSeq(t, 1, Len(t) - 1)
        breaks == {i \in 1..Len(body) : body[i] = NL}
    IN  IF breaks = {} THEN body ELSE SubSeq(body, SetMax(breaks) + 1, Len(body))

\* The list item of line j followed by the lines after it up to line n.
RECURSIVE ItemWithContinuations(_, _)
ItemWithContinuations(j, n) ==
    IF n = j THEN format_list_item(TextOfLine(j))
    ELSE ItemWithContinuations(j, n - 1) \o <<" ">> \o TextOfLine(n)

\* C28: whenever a line is joined to the output by replacing the trailing
\* newline with a space, the text it is joined to is the most recent list
\* item with its earlier continuations, never a caption, a table or an image
\* placeholder.
C28_ContinuationJoinsListItem ==
    [][AtListLine /\ JoinedToPrevious =>
            \E j \in 1..call.k :
                /\ is_list_item(TextOfLine(j))
                /\ LastLineOf(call'.s.st.output) = ItemWithContinuations(j, call.k + 1)]_vars

----------------------------------------------------------------------------
(* Where Text items come from: Tj, TJ and ' inside and outside text objects *)

MaxShowOps == 4

OpQuote(c) == Operation("'", <<StringObject(<<c>>)>>)
OpTJ(c) == Operation("TJ", <<ArrayObject(<<StringObject(<<c>>)>>)>>)

ShowOpPool == {OpBT, OpET, OpTj(65), OpTJ(68), OpQuote(69), OpDo(Fm1)}

ShowDocuments ==
    {[pages |-> <<[content |-> Content(operations), font_tables |-> WidthFontEnv,
                   xobjects |-> (Fm1 :> FormXObject(1))]>>,
      forms |-> TextForms] :
        operations \in SeqsUpTo(ShowOpPool, MaxShowOps)}

ShowInit ==
    /\ doc \in ShowDocuments
    /\ pc = "next_page"
    /\ page_pos = 1
    /\ page_state = <<>>
    /\ frames = <<>>
    /\ all_items = <<>>
    /\ result = <<>>
    /\ LayoutIdle
    /\ DecodeIdle
    /\ EmitIdle
    /\ CallIdle

SpecShow == ShowInit /\ [][InterpNext]_vars

SHOW_OPERATORS == {"Tj", "TJ", "'"}

TextItemsOf(its) == SelectSeq(its, LAMBDA it : it.item_type = "Text")

Extends(longer, shorter) ==
    Len(longer) >= Len(shorter) /\ SubSeq(longer, 1, Len(shorter)) = shorter

\* A turn of the page loop leaves the items as they are, or appends one; it
\* appends a Text item only at a show-text operator inside a text object.
PageTurnAsDescribed ==
    AtPageOp /\ DoTarget(PageOpNow, CurrentPage.xobjects) = NoForm =>
        /\ Extends(page_state'.items, page_state.items)
        /\ TextItemsOf(page_state'.items) # TextItemsOf(page_state.items) =>
                PageOpNow.operator \in SHOW_OPERATORS /\ page_state.in_text_block

\* The same of a turn of the form loop.
FormTurnAsDescribed ==
    AtFormOp =>
        /\ Len(frames') = Len(frames)
        /\ Extends(frames'[Len(frames)].items, TopFrame.items)
        /\ frames'[Len(frames)].items # TopFrame.items =>
                FormOpNow.operator \in SHOW_OPERATORS /\ TopFrame.in_text_block

\* When a form invoked by a Do of the page returns, its items follow those of
\* the operators before the Do.
FormItemsAtDo ==
    frames # <<>> /\ ~AtFormOp /\ Len(frames) = 1 =>
        /\ PageOpNow.operator = "Do"
        /\ page_state'.items = page_state.items \o TopFrame.items

\* C29: every Text item comes from a show-text operator (Tj, TJ or ')
\* executed after a BT and before the matching ET, and the items are in the
\* order of their operators, a form's items at the position of its Do.
C29_TextOnlyInTextObjects ==
    [][PageTurnAsDescribed /\ FormTurnAsDescribed /\ FormItemsAtDo]_vars

----------------------------------------------------------------------------
(* group_into_lines keeps every item: single- and two-column pages *)

MaxConserveItems == 2

\* An ordinary item, an item across both columns, a page-number-shaped item,
\* a number in the middle of the page, an item in the gutter, an item of the
\* next page, and two items set at font size 0 without a width: one inside
\* the left column, one at the right edge of the right column.  They are set
\* around two blocks of ten rows, and around two blocks of twenty lines, in
\* which one item across the gutter is under the noise threshold.
ConservePool ==
    {TextItem(Word, 1000, 7000, 0, 120, 1),
     TextItem(Word, 1000, 6800, 3000, 120, 1),
     TextItem(<<"7">>, 1600, 500, 0, 120, 1),
     TextItem(<<"7">>, 1600, 5000, 0, 120, 1),
     TextItem(Word, 2400, 7000, 300, 120, 1),
     TextItem(Word, 3500, 7000, 0, 120, 2),
     TextItem(Word, 1200, 7000, 0, 0, 1),
     TextItem(Word, 4100, 7000, 0, 0, 1)}

ConserveInputs ==
    SeqsUpTo(ConservePool, MaxConserveItems)
        \cup {e1 \o base \o e2 :
                base \in {TwoColumnBase, TwoBlocks(20, 20, 800, 800, 0)},
                e1 \in SeqsUpTo(ConservePool, 1), e2 \in SeqsUpTo(ConservePool, 1)}

ConserveInit ==
    /\ items \in ConserveInputs
    /\ lines = <<>>
    /\ stage = "input"
    /\ DecodeIdle
    /\ InterpIdle
    /\ EmitIdle
    /\ CallIdle

ConserveNext == GroupIntoLines

SpecConserve == ConserveInit /\ [][ConserveNext]_vars

\* How many times the item occurs in the sequence of items.
TimesIn(it, its) == Cardinality({i \in 1..Len(its) : its[i] = it})

\* How many times the item occurs in the lines, over all of them.
RECURSIVE TimesInLines(_, _)
TimesInLines(it, ls) ==
    IF ls = <<>> THEN 0
    ELSE TimesIn(it, Head(ls).items) + TimesInLines(it, Tail(ls))

\* C30: every input item that is not page-number-shaped occurs in exactly
\* one returned line (as often as it occurs in the input), on single-column
\* and on multi-column pages, and no page-number-shaped item occurs in any
\* line.
C30_ItemsConserved ==
    stage = "grouped" =>
        \A i \in 1..Len(items) :
            TimesInLines(items[i], lines) =
                IF is_page_number(items[i]) THEN 0 ELSE TimesIn(items[i], items)

----------------------------------------------------------------------------

Init == LayoutInit
Next == GroupIntoLines
Spec == Init /\ [][Next]_vars

====
